---- MODULE Spec2Model ----
(***************************************************************************)
(* Batch/checkpoint orchestration of the test-case pipeline:               *)
(*   src/ai_test_cases/src/utils/agent_io.py          (checkpoint store)   *)
(*   src/ai_test_cases/src/agents/quality_assurance.py (quality review)    *)
(*   src/ai_test_cases/src/agents/test_case_writer.py  (generate, improve) *)
(*   src/ai_test_cases/src/utils/json_parser.py        (response parsing)  *)
(*   src/ai_test_cases/src/agents/assistant.py         (stage workflow)    *)
(*   src/ai_test_cases/main.py                         (process_requirements)*)
(*                                                                         *)
(* The specifications share the variables below:                           *)
(*   Spec     - one run of a stage (generate / improve_test_cases / review)*)
(*              with its batch tasks, the collection loop and the saves;   *)
(*   SpecPart - partitioning and the per-batch / per-feature checkpoint    *)
(*              keys each batch task writes, for larger item counts;       *)
(*   SpecIO   - AgentIO.save_result / load_result at file-operation grain. *)
(*   SpecParse- UnifiedJSONParser.parse and _smart_retry, call by call;    *)
(*   SpecRepair- parse on object texts with unquoted keys, single-quoted   *)
(*              strings and a trailing comma;                              *)
(*   SpecRetry- the retry loops of _improve_with_llm and                   *)
(*              _generate_feature_test_cases;                              *)
(*   SpecAlias- _improve_test_case on one test case, with the list objects *)
(*              the dicts refer to;                                        *)
(*   SpecFlow - process_requirements around coordinate_workflow;           *)
(*   SpecFair - Spec with the fairness of the thread pool.                 *)
(***************************************************************************)
EXTENDS Integers, Sequences, FiniteSets, TLC

VARIABLES
    path,        \* the stage that runs: "gen", "imp" or "qa"
    workers,     \* self.concurrent_workers
    items,       \* the input collection (feature groups or test cases)
    batches,     \* batches, as built by the list comprehension
    batch_size,  \* batch_size
    pc,          \* position of the main thread in the stage
    task,        \* per batch: the state of its future / loop iteration
    held,        \* batch_results (gen, imp): what the collector holds per batch
    merged,      \* all_test_cases / all_improved_cases / all_reviewed_cases
    store,       \* the files under agent_results/, by checkpoint key
    ret,         \* what the stage returned, or that it raised
    last,        \* self.last_cases / self.last_review
    calls,       \* model round-trips / worker invocations made by this run
    feedback,    \* review_feedback handed to _improve_test_case
    prior,       \* the stage-level checkpoint content present when the run began
    prog,        \* SpecPart: per batch, -1 = not started, else items processed
    written,     \* SpecPart: <<key, batch_index, item id>> of each save made
    io_pc,       \* SpecIO: per writer thread, position inside save_result
    io_key,      \* SpecIO: per writer thread, the agent_name being saved
    io_doc,      \* SpecIO: per writer thread, the result being saved
    committed,   \* SpecIO: per key, the content of the last successful save
    obs,         \* SpecIO: the last load_result call: key, value, context
    p_text,      \* SpecParse: the response handed to parse, by its features
    p_ctx,       \* SpecParse: the context argument
    p_pc,        \* SpecParse: position inside parse / _smart_retry
    p_i,         \* SpecParse: index of the next strategy or retry step
    p_trace,     \* SpecParse: <<strategy, outcome>> of each chain call made
    p_rtrace,    \* SpecParse: <<step, outcome>> of each _smart_retry step
    p_ret,       \* SpecParse: what parse returned, or that it raised
    fx_in,       \* SpecRepair: the object text handed to parse, pair by pair
    fx_pc,       \* SpecRepair: "start" or "done"
    fx_out,      \* SpecRepair: what parse returned for it, and by which strategy
    lr_fn,       \* SpecRetry: "improve" (_improve_with_llm) or "feature"
    lr_batch,    \* SpecRetry: the test_cases argument of _improve_with_llm
    lr_pc,       \* SpecRetry: position inside the function
    lr_attempt,  \* SpecRetry: attempts begun so far
    lr_trips,    \* SpecRetry: initiate_chat calls made
    lr_improved, \* SpecRetry: the local improved_cases / test_cases
    lr_hist,     \* SpecRetry: what each attempt came to
    lr_ret,      \* SpecRetry: the returned list
    al_pc,       \* SpecAlias: position inside _improve_test_case
    al_fb,       \* SpecAlias: the feedback argument
    al_heap,     \* SpecAlias: the list objects, by address
    al_in,       \* SpecAlias: the caller's test case: field -> address
    al_out,      \* SpecAlias: improved_case, then the returned dict
    al_before,   \* SpecAlias: the caller's field values before the call
    wf_pc,       \* SpecFlow: position inside process_requirements
    wf_trace,    \* SpecFlow: the stage calls of coordinate_workflow, in order
    wf_design,   \* SpecFlow: design_result
    wf_cases,    \* SpecFlow: test_cases inside coordinate_workflow
    wf_ckpt,     \* SpecFlow: whose cases the 'test_case_writer' entry holds
    wf_generated,\* SpecFlow: generate returned cases in this run
    wf_result,   \* SpecFlow: what coordinate_workflow returned
    wf_path,     \* SpecFlow: whether an output_path was given
    wf_out       \* SpecFlow: what process_requirements returned

vars == <<path, workers, items, batches, batch_size, pc, task, held, merged,
          store, ret, last, calls, feedback, prior, prog, written,
          io_pc, io_key, io_doc, committed, obs,
          p_text, p_ctx, p_pc, p_i, p_trace, p_rtrace, p_ret,
          fx_in, fx_pc, fx_out,
          lr_fn, lr_batch, lr_pc, lr_attempt, lr_trips, lr_improved, lr_hist,
          lr_ret,
          al_pc, al_fb, al_heap, al_in, al_out, al_before,
          wf_pc, wf_trace, wf_design, wf_cases, wf_ckpt, wf_generated,
          wf_result, wf_path, wf_out>>

runVars  == <<pc, task, held, merged, ret, last, calls, feedback, prior>>
partVars == <<prog, written>>
ioVars   == <<io_pc, io_key, io_doc, committed, obs>>
parseVars == <<p_text, p_ctx, p_pc, p_i, p_trace, p_rtrace, p_ret>>
repairVars == <<fx_in, fx_pc, fx_out>>

\* the variables of the specifications that stand apart from the stage run
retryVars == <<lr_fn, lr_batch, lr_pc, lr_attempt, lr_trips, lr_improved,
               lr_hist, lr_ret>>
aliasVars == <<al_pc, al_fb, al_heap, al_in, al_out, al_before>>
flowVars == <<wf_pc, wf_trace, wf_design, wf_cases, wf_ckpt, wf_generated,
              wf_result, wf_path, wf_out>>
extVars == <<repairVars, retryVars, aliasVars, flowVars>>

(***************************************************************************)
(* Bounds of the model.                                                    *)
(***************************************************************************)
MaxItems == 3
MaxWorkers == 2
PartMaxItems == 20
PartMaxFeatures == 9
PartMaxWorkers == 3
MaxPairs == 2
FairMaxItems == 2

(***************************************************************************)
(* Program constants.                                                      *)
(***************************************************************************)
BatchesPerWorker == 2
QaChunkDivisor == 3
ImproveChunkDivisor == 10
MaxRetries == 3

Paths == {"gen", "imp", "qa"}

Min(a, b) == IF a <= b THEN a ELSE b
Max(a, b) == IF a >= b THEN a ELSE b

(***************************************************************************)
(* Work items.  A feature group is the Python tuple (feature, items); test *)
(* cases are dicts.  The kind tells an input case from a rewritten one.    *)
(***************************************************************************)
Item(n, k) == [id |-> n, kind |-> k]

OrigKind(p) == IF p = "gen" THEN "feature" ELSE "case"

InputItems(p, n) == [i \in 1..n |-> Item(i, OrigKind(p))]

RECURSIVE Flatten(_)
Flatten(ss) ==
    IF Len(ss) = 0 THEN <<>> ELSE Head(ss) \o Flatten(Tail(ss))

(***************************************************************************)
(* Partitioning.                                                           *)
(***************************************************************************)
ClampWorkersNoFloor(cw) == cw

\* self.concurrent_workers = max(1, concurrent_workers)
ClampWorkers(cw) == Max(1, cw)

BatchSizeConcurrent(n, w) ==
    LET num_batches == Min(n, w * BatchesPerWorker)
    IN  Max(1, n \div num_batches)

BatchSizeSequential(n, divisor) == Max(1, n \div divisor)

\* generate() has no chunking in its sequential loop: one feature per step.
BatchSizeFor(p, n, w) ==
    IF w > 1 THEN BatchSizeConcurrent(n, w)
    ELSE IF p = "qa" THEN BatchSizeSequential(n, QaChunkDivisor)
    ELSE IF p = "imp" THEN BatchSizeSequential(n, ImproveChunkDivisor)
    ELSE 1

MakeBatchesDropTail(s, bs) ==
    [k \in 1..(Len(s) \div bs) |-> SubSeq(s, (k - 1) * bs + 1, k * bs)]

\* [s[i:i + bs] for i in range(0, len(s), bs)]
MakeBatches(s, bs) ==
    [k \in 1..((Len(s) + bs - 1) \div bs) |->
        SubSeq(s, (k - 1) * bs + 1, Min(k * bs, Len(s)))]

(***************************************************************************)
(* Checkpoint keys.  batch_index and i are zero-based, as in the code.     *)
(***************************************************************************)
Key(pre, n) == [pre |-> pre, n |-> n]

StageKey(p) ==
    IF p = "qa" THEN Key("quality_assurance", 0) ELSE Key("test_case_writer", 0)

BatchPrefix(p) ==
    IF p = "qa" THEN "quality_assurance_batch"
    ELSE IF p = "imp" THEN "test_case_writer_improved_batch"
    ELSE "test_case_writer_feature"

BatchKey(p, batch_index) == Key(BatchPrefix(p), batch_index + 1)

FeatureIndexNoStride(batch_index, bs, i) == batch_index + i + 1

FeatureIndex(batch_index, bs, i) == batch_index * bs + i + 1

FeatureKey(batch_index, bs, i) ==
    Key(BatchPrefix("gen"), FeatureIndex(batch_index, bs, i))

(***************************************************************************)
(* Checkpoint documents and files.                                         *)
(***************************************************************************)
Doc(cases, status) == [cases |-> cases, status |-> status]

\* Python None, as a value comparable with documents
NoneDoc == Doc(<<>>, "None")

NoFile == [st |-> "none", doc |-> NoneDoc]

\* a file that open(..., 'w') has truncated and json.dump has not completed
PartialFile == [st |-> "partial", doc |-> NoneDoc]

FullFile(d) == [st |-> "full", doc |-> d]

BatchPrefixes == {BatchPrefix(p) : p \in Paths}

AllKeys ==
    {StageKey(p) : p \in Paths} \cup
    {Key(pre, n) : pre \in BatchPrefixes, n \in 1..(MaxItems + 1)}

EmptyStore == [k \in AllKeys |-> NoFile]

\* the outcome of the stage call: returned value or escaped exception, the
\* outcome of its stage-level save_result, the exit it took, and whether the
\* removal of the per-batch files ran ("none": it was not called)
Ret(val, raised, stage_save, via) ==
    [done |-> TRUE, raised |-> raised, val |-> val,
     stage_save |-> stage_save, via |-> via, cleanup |-> "none"]

NoRet ==
    [done |-> FALSE, raised |-> FALSE, val |-> <<>>,
     stage_save |-> "none", via |-> "none", cleanup |-> "none"]

\* the removal loop stopped early (os.remove raised) or went through
Cleanup(existing, removed) == IF removed = existing THEN "ok" ELSE "failed"

IOKeys == {StageKey("gen"), BatchKey("imp", 0)}

IODocs ==
    {Doc(<<Item(1, "case")>>, "plain"),
     Doc(<<Item(1, "changed"), Item(2, "changed")>>, "plain")}

\* a load_result call: its key and value, the content of the last successful
\* save to that key, and the save_result call it overlapped or followed
Observation(k, val, prev, writing, new, after_failed) ==
    [seen |-> TRUE, key |-> k, val |-> val, prev |-> prev,
     writing |-> writing, new |-> new, after_failed |-> after_failed]

NoObservation ==
    [seen |-> FALSE, key |-> StageKey("gen"), val |-> NoneDoc, prev |-> NoneDoc,
     writing |-> FALSE, new |-> NoneDoc, after_failed |-> FALSE]

\* the outcome of parse: the mapping a strategy produced (and which), or None
ParseRet(val, by, raised) == [done |-> TRUE, raised |-> raised, val |-> val, by |-> by]

NoParseRet == [done |-> FALSE, raised |-> FALSE, val |-> "None", by |-> "none"]

\* parse has not been called
ParseUnused ==
    /\ p_text = [shape |-> "empty", labels |-> FALSE]
    /\ p_ctx = "unknown"
    /\ p_pc = "idle"
    /\ p_i = 0
    /\ p_trace = <<>>
    /\ p_rtrace = <<>>
    /\ p_ret = NoParseRet

\* the result of parse on an object text: the pairs of the mapping, or None
Parsed(pairs, by) == [ok |-> TRUE, pairs |-> pairs, by |-> by]

NotParsed == [ok |-> FALSE, pairs |-> <<>>, by |-> "none"]

RepairUnused ==
    /\ fx_in = [pairs |-> <<>>, trailing |-> FALSE]
    /\ fx_pc = "idle"
    /\ fx_out = NotParsed

\* a test case as _improve_with_llm sees it: one of the caller's, or one
\* parsed from the model's answer that passes _validate_test_case or not
Case(n, state) == [id |-> n, state |-> state]

\* neither _improve_with_llm nor _generate_feature_test_cases has been called
RetryUnused ==
    /\ lr_fn = "none"
    /\ lr_batch = <<>>
    /\ lr_pc = "idle"
    /\ lr_attempt = 0
    /\ lr_trips = 0
    /\ lr_improved = <<>>
    /\ lr_hist = <<>>
    /\ lr_ret = <<>>

\* the list-valued fields of a test case that _improve_test_case touches
ListFields ==
    {"preconditions", "steps", "expected_results", "boundary_conditions",
     "error_scenarios"}

\* a dict of a test case: the address of the list each key refers to, 0 for
\* a key the dict does not have
NoCase == [f \in ListFields |-> 0]

NoFeedback == [kind |-> "falsy", sections |-> {}, boundary |-> "b1"]

\* _improve_test_case has not been called
AliasUnused ==
    /\ al_pc = "idle"
    /\ al_fb = NoFeedback
    /\ al_heap = <<>>
    /\ al_in = NoCase
    /\ al_out = NoCase
    /\ al_before = <<>>

\* the result of process_requirements: its status, whose test cases it
\* carries, and whether the checkpoint was loaded and the export ran
Outcome(status, cases, loaded, exported) ==
    [status |-> status, cases |-> cases, loaded |-> loaded,
     exported |-> exported]

NoOutcome == Outcome("none", "none", FALSE, FALSE)

\* process_requirements has not been called
FlowUnused ==
    /\ wf_pc = "idle"
    /\ wf_trace = <<>>
    /\ wf_design = "unset"
    /\ wf_cases = "unset"
    /\ wf_ckpt = "none"
    /\ wf_generated = FALSE
    /\ wf_result = "none"
    /\ wf_path = FALSE
    /\ wf_out = NoOutcome

ExtUnused == RepairUnused /\ RetryUnused /\ AliasUnused /\ FlowUnused

\* no save_result or load_result call has been made
IOUnused ==
    /\ io_pc = "idle"
    /\ io_key = StageKey("gen")
    /\ io_doc = NoneDoc
    /\ committed = [k \in IOKeys |-> NoneDoc]
    /\ obs = NoObservation

(***************************************************************************)
(* SpecPart: partitioning, and the checkpoint keys the batch tasks write.  *)
(* Tasks leave the pool's queue in submission order, at most `workers` of  *)
(* them run at a time, and each walks its batch item by item.              *)
(***************************************************************************)
PartInit ==
    /\ path \in Paths
    /\ \E cw \in 0..PartMaxWorkers : workers = ClampWorkers(cw)
    /\ \E n \in 1..(IF path = "gen" THEN PartMaxFeatures ELSE PartMaxItems) :
          items = InputItems(path, n)
    /\ batches = <<>>
    /\ batch_size = 0
    /\ pc = "init"
    /\ prog = <<>>
    /\ written = {}
    /\ task = <<>> /\ held = <<>> /\ merged = <<>>
    /\ store = EmptyStore
    /\ ret = NoRet
    /\ last = NoneDoc
    /\ calls = 0
    /\ feedback = "empty"
    /\ prior = NoneDoc
    /\ IOUnused
    /\ ParseUnused
    /\ ExtUnused

Partition ==
    /\ pc = "init"
    /\ LET bs == BatchSizeFor(path, Len(items), workers)
           bb == MakeBatches(items, bs)
       IN  /\ batch_size' = bs
           /\ batches' = bb
           /\ prog' = [b \in 1..Len(bb) |-> -1]
    /\ pc' = "part"
    /\ UNCHANGED <<path, workers, items, task, held, merged, store, ret, last,
                   calls, feedback, prior, written>>
    /\ UNCHANGED ioVars
    /\ UNCHANGED parseVars
    /\ UNCHANGED extVars

PartRunning(b) == prog[b] >= 0 /\ prog[b] < Len(batches[b])

\* executor.submit in index order; a worker thread takes the next queued task
PartTaskStart(b) ==
    /\ pc = "part"
    /\ prog[b] = -1
    /\ \A a \in 1..(b - 1) : prog[a] >= 0
    /\ Cardinality({a \in 1..Len(batches) : PartRunning(a)}) < workers
    /\ prog' = [prog EXCEPT ![b] = 0]
    /\ UNCHANGED <<path, workers, items, batches, batch_size, pc, written>>
    /\ UNCHANGED <<task, held, merged, store, ret, last, calls, feedback, prior>>
    /\ UNCHANGED ioVars
    /\ UNCHANGED parseVars
    /\ UNCHANGED extVars

\* The save_result calls a batch task makes while it handles position i
\* (zero-based) of its batch.  Feature generation saves after each feature
\* that produced cases; improvement and review save once, after the last item.
SavesAt(p, batch_index, bs, i, len, item, produced) ==
    IF p = "gen"
    THEN IF produced
         THEN {<<FeatureKey(batch_index, bs, i), batch_index, item.id>>}
         ELSE {}
    ELSE IF i = len - 1
         THEN {<<BatchKey(p, batch_index), batch_index, 0>>}
         ELSE {}

PartTaskStep(b) ==
    /\ pc = "part"
    /\ PartRunning(b)
    /\ \E produced \in BOOLEAN :
          written' = written \cup
              SavesAt(path, b - 1, batch_size, prog[b], Len(batches[b]),
                      batches[b][prog[b] + 1], produced)
    /\ prog' = [prog EXCEPT ![b] = prog[b] + 1]
    /\ UNCHANGED <<path, workers, items, batches, batch_size, pc>>
    /\ UNCHANGED <<task, held, merged, store, ret, last, calls, feedback, prior>>
    /\ UNCHANGED ioVars
    /\ UNCHANGED parseVars
    /\ UNCHANGED extVars

PartNext ==
    \/ Partition
    \/ \E b \in 1..Len(batches) : PartTaskStart(b)
    \/ \E b \in 1..Len(batches) : PartTaskStep(b)

SpecPart == PartInit /\ [][PartNext]_vars

(***************************************************************************)
(* AgentIO.  json.dump writes Python tuples as JSON arrays, so a loaded     *)
(* document holds lists where the saved one held tuples.                   *)
(***************************************************************************)
ToJson(item) ==
    IF item.kind = "feature" THEN Item(item.id, "array") ELSE item

JsonDump(d) == Doc([i \in 1..Len(d.cases) |-> ToJson(d.cases[i])], d.status)

SaveOutcomes == {"ok", "open_failed", "write_failed"}

\* open(file_path, 'w') truncates the file before anything is written
Truncate(s, k) == [s EXCEPT ![k] = PartialFile]

WriteAll(s, k, d) == [s EXCEPT ![k] = FullFile(JsonDump(d))]

\* save_result as one step: "open_failed" raises before the file is touched,
\* "write_failed" raises after the truncation.
SaveResult(s, k, d, outcome) ==
    IF outcome = "ok" THEN WriteAll(Truncate(s, k), k, d)
    ELSE IF outcome = "write_failed" THEN Truncate(s, k)
    ELSE s

\* load_result: None when the file is missing or json.load raises
LoadResult(s, k) == IF s[k].st = "full" THEN s[k].doc ELSE NoneDoc

\* os.remove of each file of `keys`
RemoveFiles(s, keys) == [k \in AllKeys |-> IF k \in keys THEN NoFile ELSE s[k]]

Existing(s, pre) == {k \in AllKeys : k.pre = pre /\ s[k].st # "none"}

(***************************************************************************)
(* Workers.                                                                *)
(***************************************************************************)
\* _improve_test_case: the case itself when the feedback is empty, else a
\* rewritten copy
ImproveCase(c, fb) == IF fb = "empty" THEN c ELSE Item(c.id, "changed")

ReviewBatchDropLast(batch, fb) ==
    [i \in 1..(Len(batch) - 1) |-> ImproveCase(batch[i], fb)]

\* the loop of process_batch / _process_review over one batch
ReviewBatch(batch, fb) == [i \in 1..Len(batch) |-> ImproveCase(batch[i], fb)]

LlmOutcomes == {"improved", "unvalidated", "failed"}

\* _improve_with_llm: validated rewritten cases, the unvalidated cases of the
\* last parsed answer when no attempt validated, or the input batch when
\* nothing was parsed
ImproveWithLlm(batch, llm) ==
    IF llm = "improved"
    THEN [i \in 1..Len(batch) |-> Item(batch[i].id, "changed")]
    ELSE IF llm = "unvalidated"
    THEN [i \in 1..Len(batch) |-> Item(batch[i].id, "unvalidated")]
    ELSE batch

FeatureOutcomes == {"ok", "open_failed", "write_failed", "empty"}

\* _generate_feature_test_cases: the cases of one feature, [] on failure
FeatureCases(f, out) == IF out = "empty" THEN <<>> ELSE <<Item(f.id, "gen")>>

RECURSIVE GenCases(_, _, _)
\* batch_test_cases after the first n features of the batch
GenCases(batch, outs, n) ==
    IF n = 0 THEN <<>>
    ELSE GenCases(batch, outs, n - 1) \o FeatureCases(batch[n], outs[n])

RECURSIVE GenStore(_, _, _, _, _, _)
\* the store after the per-feature saves of the first n features
GenStore(s, batch_index, bs, batch, outs, n) ==
    IF n = 0 THEN s
    ELSE LET before == GenStore(s, batch_index, bs, batch, outs, n - 1)
         IN  IF outs[n] = "empty" THEN before
             ELSE SaveResult(before, FeatureKey(batch_index, bs, n - 1),
                             Doc(FeatureCases(batch[n], outs[n]), "in_progress"),
                             outs[n])

NewTaskSkipped == [st |-> "collected", res |-> <<>>, raised |-> FALSE, save |-> "none"]

\* a future just submitted to the pool (or a loop iteration not yet reached)
NewTask == [st |-> "pending", res |-> <<>>, raised |-> FALSE, save |-> "none"]

NoneHeld == [set |-> FALSE, val |-> <<>>]

\* the merge loop: for batch_result in batch_results: if batch_result: extend
MergeHeld(h) ==
    Flatten([b \in 1..Len(h) |-> IF h[b].set THEN h[b].val ELSE <<>>])

(***************************************************************************)
(* Spec: one run of a stage.                                               *)
(***************************************************************************)
\* what an earlier run left under the stage-level key
PriorDoc == Doc(<<Item(1, "old")>>, "completed")

\* what an earlier, interrupted run left under a per-feature key
StaleDoc == Doc(<<Item(1, "stale")>>, "in_progress")

\* State after __init__ of the agent: the store is as earlier runs left it
\* and _load_last_cases / _load_last_review has read the stage-level entry.
RunInit(max_items) ==
    /\ path \in Paths
    /\ \E cw \in -1..MaxWorkers : workers = ClampWorkers(cw)
    /\ \E n \in 0..max_items : items = InputItems(path, n)
    /\ \E had \in BOOLEAN, stale \in BOOLEAN :
          /\ stale => path = "gen"
          /\ prior = IF had THEN PriorDoc ELSE NoneDoc
          /\ store = [k \in AllKeys |->
                        IF had /\ k = StageKey(path) THEN FullFile(PriorDoc)
                        ELSE IF stale /\ k = FeatureKey(0, 1, 0)
                             THEN FullFile(StaleDoc)
                        ELSE NoFile]
          /\ last = LoadResult(store, StageKey(path))
    /\ batches = <<>>
    /\ batch_size = 0
    /\ pc = "init"
    /\ task = <<>> /\ held = <<>> /\ merged = <<>>
    /\ ret = NoRet
    /\ calls = 0
    /\ feedback = "empty"
    /\ prog = <<>>
    /\ written = {}
    /\ IOUnused
    /\ ParseUnused
    /\ ExtUnused

Init == RunInit(MaxItems)

\* the batches of the run and one future (or loop iteration) per batch
Submit ==
    LET bs == BatchSizeFor(path, Len(items), workers)
        bb == MakeBatches(items, bs)
    IN  /\ batch_size' = bs
        /\ batches' = bb
        /\ task' = [b \in 1..Len(bb) |-> NewTask]
        /\ held' = [b \in 1..Len(bb) |-> NoneHeld]
        /\ pc' = IF workers > 1 THEN "pool" ELSE "seq"

Return(r) ==
    /\ ret' = r
    /\ pc' = "returned"

\* `if not test_cases` / `if not original_cases`
EmptyInput(input) == Len(input) = 0

ShortCircuitResultWithError(fn, input) ==
    IF fn = "improve_test_cases" THEN input ELSE <<Item(0, "error")>>

\* what the guard on an empty list returns: improve_test_cases hands back its
\* argument, review a dict whose reviewed_cases is [], the inner functions []
ShortCircuitResult(fn, input) ==
    IF fn = "improve_test_cases" THEN input ELSE <<>>

\* QualityAssuranceAgent.review, up to the call of _process_review(_concurrent)
EnterReview ==
    /\ pc = "init"
    /\ path = "qa"
    /\ IF EmptyInput(items)
       THEN /\ Return(Ret(ShortCircuitResult("review", items), FALSE, "none", "empty"))
            /\ UNCHANGED <<batches, batch_size, task, held, calls, feedback>>
       ELSE \E chat \in {"ok", "raise"}, fb \in {"empty", "suggestions"} :
              /\ calls' = calls + 1
              /\ IF chat = "raise"
                 THEN /\ fb = "empty"
                      /\ Return(Ret(items, FALSE, "none", "chat_error"))
                      /\ UNCHANGED <<batches, batch_size, task, held, feedback>>
                 ELSE /\ feedback' = fb
                      /\ Submit
                      /\ UNCHANGED ret
    /\ UNCHANGED <<path, workers, items, merged, store, last, prior>>
    /\ UNCHANGED partVars
    /\ UNCHANGED parseVars
    /\ UNCHANGED extVars
    /\ UNCHANGED ioVars

\* TestCaseWriterAgent.improve_test_cases, up to the choice of the path
EnterImprove ==
    /\ pc = "init"
    /\ path = "imp"
    /\ IF EmptyInput(items)
       THEN /\ Return(Ret(ShortCircuitResult("improve_test_cases", items),
                          FALSE, "none", "empty"))
            /\ UNCHANGED <<batches, batch_size, task, held, feedback>>
       ELSE \E fb \in {"empty", "suggestions"} :
              /\ feedback' = fb
              /\ IF fb = "empty"
                 THEN /\ Return(Ret(items, FALSE, "none", "no_feedback"))
                      /\ UNCHANGED <<batches, batch_size, task, held>>
                 ELSE /\ Submit
                      /\ UNCHANGED ret
    /\ UNCHANGED <<path, workers, items, merged, store, last, calls, prior>>
    /\ UNCHANGED partVars
    /\ UNCHANGED parseVars
    /\ UNCHANGED extVars
    /\ UNCHANGED ioVars

\* _process_review, _process_review_concurrent or
\* _improve_test_cases_concurrent called with an empty list: the guard at the
\* top of the function returns [] (with a non-empty list they run as they do
\* below review and improve_test_cases)
EnterInner ==
    /\ pc = "init"
    /\ path \in {"imp", "qa"}
    /\ path = "imp" => workers > 1
    /\ EmptyInput(items)
    /\ Return(Ret(ShortCircuitResult("inner", items), FALSE, "none", "inner_empty"))
    /\ UNCHANGED <<path, workers, items, batches, batch_size, task, held, merged,
                   store, last, calls, feedback, prior>>
    /\ UNCHANGED partVars
    /\ UNCHANGED parseVars
    /\ UNCHANGED extVars
    /\ UNCHANGED ioVars

WholeOutcomes == {"cases", "none", "raise"}

\* _generate_all_test_cases: one list for the whole strategy; it re-raises
WholeGeneration(out) ==
    IF out = "raise" THEN Ret(<<>>, TRUE, "none", "whole")
    ELSE IF out = "cases" THEN Ret(<<Item(1, "whole")>>, FALSE, "none", "whole")
    ELSE Ret(<<>>, FALSE, "none", "whole")

\* TestCaseWriterAgent.generate, up to the choice of the path
EnterGenerate ==
    /\ pc = "init"
    /\ path = "gen"
    /\ IF Len(items) = 0
       THEN \E out \in WholeOutcomes :
              /\ Return(WholeGeneration(out))
              /\ calls' = calls + 1
              /\ UNCHANGED <<batches, batch_size, task, held>>
       ELSE /\ Submit
            /\ UNCHANGED <<ret, calls>>
    /\ UNCHANGED <<path, workers, items, merged, store, last, feedback, prior>>
    /\ UNCHANGED partVars
    /\ UNCHANGED parseVars
    /\ UNCHANGED extVars
    /\ UNCHANGED ioVars

Running == {a \in 1..Len(task) : task[a].st = "running"}

\* a worker thread of the pool takes the next queued batch task
TaskStart(b) ==
    /\ pc = "pool"
    /\ task[b].st = "pending"
    /\ \A a \in 1..(b - 1) : task[a].st # "pending"
    /\ Cardinality(Running) < workers
    /\ task' = [task EXCEPT ![b].st = "running"]
    /\ calls' = calls + 1
    /\ UNCHANGED <<path, workers, items, batches, batch_size, pc, held, merged,
                   store, ret, last, feedback, prior>>
    /\ UNCHANGED partVars
    /\ UNCHANGED parseVars
    /\ UNCHANGED extVars
    /\ UNCHANGED ioVars

SaveFlag(so) == IF so = "ok" THEN "ok" ELSE "failed"

GenSaveFlag(outs) ==
    IF \E i \in DOMAIN outs : outs[i] \in {"open_failed", "write_failed"}
    THEN "failed"
    ELSE IF \E i \in DOMAIN outs : outs[i] = "ok" THEN "ok" ELSE "none"

Done(res, flag) == [st |-> "done", res |-> res, raised |-> FALSE, save |-> flag]

\* process_batch of _process_review_concurrent returns
ReviewTaskReturns(b) ==
    /\ path = "qa"
    /\ \E so \in SaveOutcomes :
          LET res == ReviewBatch(batches[b], feedback)
          IN  /\ store' = SaveResult(store, BatchKey("qa", b - 1),
                                     Doc(res, "in_progress"), so)
              /\ task' = [task EXCEPT ![b] = Done(res, SaveFlag(so))]

\* process_improvement_batch returns
ImproveTaskReturns(b) ==
    /\ path = "imp"
    /\ \E llm \in LlmOutcomes, so \in SaveOutcomes :
          LET got == ImproveWithLlm(batches[b], llm)
              res == IF got = <<>> THEN batches[b] ELSE got
          IN  /\ store' = SaveResult(store, BatchKey("imp", b - 1),
                                     Doc(res, "in_progress"), so)
              /\ task' = [task EXCEPT ![b] = Done(res, SaveFlag(so))]

\* process_batch of _generate_feature_test_cases_concurrent returns
GenerateTaskReturns(b) ==
    /\ path = "gen"
    /\ \E outs \in [1..Len(batches[b]) -> FeatureOutcomes] :
          LET n == Len(batches[b])
          IN  /\ store' = GenStore(store, b - 1, batch_size, batches[b], outs, n)
              /\ task' = [task EXCEPT ![b] =
                            Done(GenCases(batches[b], outs, n), GenSaveFlag(outs))]

TaskReturns(b) ==
    /\ pc = "pool"
    /\ task[b].st = "running"
    /\ \/ ReviewTaskReturns(b)
       \/ ImproveTaskReturns(b)
       \/ GenerateTaskReturns(b)
    /\ UNCHANGED <<path, workers, items, batches, batch_size, pc, held, merged,
                   ret, last, calls, feedback, prior>>
    /\ UNCHANGED partVars
    /\ UNCHANGED parseVars
    /\ UNCHANGED extVars
    /\ UNCHANGED ioVars

\* the batch task ends with an exception, which its future keeps; a feature
\* batch may have saved the features it handled before
TaskRaises(b) ==
    /\ pc = "pool"
    /\ task[b].st = "running"
    /\ task' = [task EXCEPT ![b] =
                  [st |-> "raised", res |-> <<>>, raised |-> TRUE, save |-> "none"]]
    /\ IF path = "gen"
       THEN \E n \in 0..(Len(batches[b]) - 1) :
              \E outs \in [1..n -> FeatureOutcomes] :
                 store' = GenStore(store, b - 1, batch_size, batches[b], outs, n)
       ELSE store' = store
    /\ UNCHANGED <<path, workers, items, batches, batch_size, pc, held, merged,
                   ret, last, calls, feedback, prior>>
    /\ UNCHANGED partVars
    /\ UNCHANGED parseVars
    /\ UNCHANGED extVars
    /\ UNCHANGED ioVars

\* what the except branch of the generation collector stores for a failed batch
GenFallback(batch) == batch

\* One iteration of `for future in as_completed(future_to_batch)`: the main
\* thread takes a finished future, in completion order.
Collect(b) ==
    /\ pc = "pool"
    /\ task[b].st \in {"done", "raised"}
    /\ task' = [task EXCEPT ![b].st = "collected"]
    /\ IF path = "qa"
       THEN /\ merged' = IF task[b].raised THEN merged ELSE merged \o task[b].res
            /\ held' = held
       ELSE IF path = "imp"
       THEN /\ held' = IF task[b].raised THEN held
                       ELSE [held EXCEPT ![b] = [set |-> TRUE, val |-> task[b].res]]
            /\ merged' = merged
       ELSE /\ held' = [held EXCEPT ![b] =
                          [set |-> TRUE,
                           val |-> IF task[b].raised THEN GenFallback(batches[b])
                                   ELSE task[b].res]]
            /\ merged' = merged
    /\ UNCHANGED <<path, workers, items, batches, batch_size, pc, store, ret,
                   last, calls, feedback, prior>>
    /\ UNCHANGED partVars
    /\ UNCHANGED parseVars
    /\ UNCHANGED extVars
    /\ UNCHANGED ioVars

AllCollectedButOne ==
    Cardinality({b \in 1..Len(task) : task[b].st # "collected"}) <= 1

\* the as_completed loop (or the sequential loop) has gone through every batch
AllCollected == \A b \in 1..Len(task) : task[b].st = "collected"

NextPending == CHOOSE b \in 1..Len(task) :
                  /\ task[b].st = "pending"
                  /\ \A a \in 1..(b - 1) : task[a].st # "pending"

Collected(res, flag) ==
    [st |-> "collected", res |-> res, raised |-> FALSE, save |-> flag]

\* one iteration of the loop of _process_review
ReviewLoopStep(b) ==
    /\ path = "qa"
    /\ \E so \in SaveOutcomes :
          LET res == ReviewBatch(batches[b], feedback)
          IN  /\ merged' = merged \o res
              /\ store' = SaveResult(store, BatchKey("qa", b - 1),
                                     Doc(res, "in_progress"), so)
              /\ task' = [task EXCEPT ![b] = Collected(res, SaveFlag(so))]

\* one iteration of the sequential loop of improve_test_cases
ImproveLoopStep(b) ==
    /\ path = "imp"
    /\ \E llm \in LlmOutcomes, so \in SaveOutcomes :
          LET res == ImproveWithLlm(batches[b], llm)
          IN  /\ merged' = merged \o (IF res = <<>> THEN batches[b] ELSE res)
              /\ store' = SaveResult(store, BatchKey("imp", b - 1),
                                     Doc(res, "in_progress"), so)
              /\ task' = [task EXCEPT ![b] = Collected(res, SaveFlag(so))]

\* one iteration of the sequential loop of generate: feature i + 1 = b
GenerateLoopStep(b) ==
    /\ path = "gen"
    /\ \E outs \in [1..1 -> FeatureOutcomes] :
          LET res == GenCases(batches[b], outs, 1)
          IN  /\ merged' = merged \o res
              /\ store' = GenStore(store, b - 1, 1, batches[b], outs, 1)
              /\ task' = [task EXCEPT ![b] = Collected(res, GenSaveFlag(outs))]

LoopStep ==
    /\ pc = "seq"
    /\ ~AllCollected
    /\ \/ ReviewLoopStep(NextPending)
       \/ ImproveLoopStep(NextPending)
       \/ GenerateLoopStep(NextPending)
    /\ calls' = calls + 1
    /\ UNCHANGED <<path, workers, items, batches, batch_size, pc, held, ret,
                   last, feedback, prior>>
    /\ UNCHANGED partVars
    /\ UNCHANGED parseVars
    /\ UNCHANGED extVars
    /\ UNCHANGED ioVars

\* The except clause of the stage for an exception out of its own body:
\* review returns error_result with the input cases, improve_test_cases
\* returns the input cases, generate logs and re-raises.
StageExcept(p, input, stage_save, via) ==
    IF p = "gen" THEN Ret(<<>>, TRUE, stage_save, via)
    ELSE Ret(input, FALSE, stage_save, via)

\* an exception inside the sequential loop reaches the stage's except clause
LoopRaises ==
    /\ pc = "seq"
    /\ ~AllCollected
    /\ Return(StageExcept(path, items, "none", "loop_error"))
    /\ UNCHANGED <<path, workers, items, batches, batch_size, task, held, merged,
                   store, last, calls, feedback, prior>>
    /\ UNCHANGED partVars
    /\ UNCHANGED parseVars
    /\ UNCHANGED extVars
    /\ UNCHANGED ioVars

PoolOrLoopDone == pc \in {"pool", "seq"} /\ AllCollected

\* review after _process_review(_concurrent): stage save inside its own
\* try/except, last_review, _delete_batch_files (glob, failures logged)
FinishReview ==
    /\ PoolOrLoopDone
    /\ path = "qa"
    /\ \E so \in SaveOutcomes :
          LET saved == SaveResult(store, StageKey("qa"), Doc(merged, "completed"), so)
          IN  \E removed \in SUBSET Existing(saved, BatchPrefix("qa")) :
                 /\ store' = RemoveFiles(saved, removed)
                 /\ Return([Ret(merged, FALSE, so, "normal") EXCEPT !.cleanup =
                               Cleanup(Existing(saved, BatchPrefix("qa")), removed)])
    /\ last' = Doc(merged, "list")
    /\ UNCHANGED <<path, workers, items, batches, batch_size, task, held, merged,
                   calls, feedback, prior>>
    /\ UNCHANGED partVars
    /\ UNCHANGED parseVars
    /\ UNCHANGED extVars
    /\ UNCHANGED ioVars

\* improve_test_cases after the batches: the unguarded stage save sits inside
\* the try whose except returns the input cases
FinishImprove ==
    /\ PoolOrLoopDone
    /\ path = "imp"
    /\ LET all == IF workers > 1 THEN MergeHeld(held) ELSE merged
       IN  /\ merged' = all
           /\ IF all = <<>>
              THEN /\ Return(Ret(items, FALSE, "none", "all_failed"))
                   /\ UNCHANGED <<store, last>>
              ELSE \E so \in SaveOutcomes :
                     /\ last' = Doc(all, "list")
                     /\ store' = SaveResult(store, StageKey("imp"),
                                            Doc(all, "plain"), so)
                     /\ IF so = "ok"
                        THEN Return(Ret(all, FALSE, so, "normal"))
                        ELSE Return(StageExcept("imp", items, so, "save_error"))
    /\ UNCHANGED <<path, workers, items, batches, batch_size, task, held,
                   calls, feedback, prior>>
    /\ UNCHANGED partVars
    /\ UNCHANGED parseVars
    /\ UNCHANGED extVars
    /\ UNCHANGED ioVars

RECURSIVE LoadFeatures(_, _)
\* the loop of _merge_feature_test_cases over feature files 1..n
LoadFeatures(s, n) ==
    IF n = 0 THEN <<>>
    ELSE LoadFeatures(s, n - 1) \o LoadResult(s, Key(BatchPrefix("gen"), n)).cases

FeatureFiles(s, n) ==
    {k \in Existing(s, BatchPrefix("gen")) : k.n \in 1..n}

\* _merge_feature_test_cases(feature_count): every exception is swallowed
MergeFeatureFiles(s, n, mo, removed) ==
    LET loaded == LoadFeatures(s, n)
    IN  IF loaded = <<>> THEN s
        ELSE IF mo # "ok"
             THEN SaveResult(s, StageKey("gen"), Doc(loaded, "completed"), mo)
        ELSE RemoveFiles(
                 SaveResult(s, StageKey("gen"), Doc(loaded, "completed"), mo),
                 removed)

\* _validate_coverage calls tc.get('title', '') on every element: a feature
\* tuple left by the collector's fallback has no such method
ValidateCoverageRaises(all) ==
    \E i \in 1..Len(all) : all[i].kind = "feature"

\* generate after the feature batches
FinishGenerate ==
    /\ PoolOrLoopDone
    /\ path = "gen"
    /\ LET all == IF workers > 1 THEN MergeHeld(held) ELSE merged
       IN  /\ merged' = all
           /\ IF all = <<>>
              THEN \E out \in WholeOutcomes :
                     /\ Return(WholeGeneration(out))
                     /\ calls' = calls + 1
                     /\ UNCHANGED <<store, last>>
              ELSE IF ValidateCoverageRaises(all)
              THEN /\ Return(StageExcept("gen", items, "none", "validate_error"))
                   /\ UNCHANGED <<store, last, calls>>
              ELSE \E so \in SaveOutcomes :
                     /\ last' = Doc(all, "list")
                     /\ calls' = calls
                     /\ IF so # "ok"
                        THEN /\ store' = SaveResult(store, StageKey("gen"),
                                                    Doc(all, "plain"), so)
                             /\ Return(StageExcept("gen", items, so, "save_error"))
                        ELSE LET saved == SaveResult(store, StageKey("gen"),
                                                     Doc(all, "plain"), so)
                                 n == Len(items)
                             IN  \E mo \in SaveOutcomes :
                                 \E removed \in SUBSET FeatureFiles(saved, n) :
                                    LET skipped == mo # "ok" \/ LoadFeatures(saved, n) = <<>>
                                    IN  /\ skipped => removed = {}
                                        /\ store' = MergeFeatureFiles(saved, n, mo, removed)
                                        /\ Return([Ret(all, FALSE, so, "normal")
                                                     EXCEPT !.cleanup =
                                                       IF skipped THEN "none"
                                                       ELSE Cleanup(FeatureFiles(saved, n),
                                                                    removed)])
    /\ UNCHANGED <<path, workers, items, batches, batch_size, task, held,
                   feedback, prior>>
    /\ UNCHANGED partVars
    /\ UNCHANGED parseVars
    /\ UNCHANGED extVars
    /\ UNCHANGED ioVars

Next ==
    \/ EnterReview
    \/ EnterInner
    \/ EnterImprove
    \/ EnterGenerate
    \/ \E b \in 1..Len(task) : TaskStart(b)
    \/ \E b \in 1..Len(task) : TaskReturns(b)
    \/ \E b \in 1..Len(task) : TaskRaises(b)
    \/ \E b \in 1..Len(task) : Collect(b)
    \/ LoopStep
    \/ LoopRaises
    \/ FinishReview
    \/ FinishImprove
    \/ FinishGenerate

Spec == Init /\ [][Next]_vars

\* The pool hands a queued task to a free worker thread, a started batch task
\* comes to its end by returning or raising, the collecting thread takes
\* every finished future and then runs the rest of the stage function.
PoolFairness ==
    /\ WF_vars(\E b \in 1..Len(task) : TaskStart(b))
    /\ WF_vars(\E b \in 1..Len(task) : TaskReturns(b) \/ TaskRaises(b))
    /\ WF_vars(\E b \in 1..Len(task) : Collect(b))
    /\ WF_vars(FinishReview \/ FinishImprove \/ FinishGenerate)

FairInit == RunInit(FairMaxItems)

SpecFair == FairInit /\ [][Next]_vars /\ PoolFairness

(***************************************************************************)
(* SpecIO: AgentIO at the grain of its file operations.  One thread calls  *)
(* save_result, another calls load_result at any moment; nothing in        *)
(* AgentIO locks the file or writes it under another name first.           *)
(***************************************************************************)
IOInit ==
    /\ store = EmptyStore
    /\ IOUnused
    /\ path = "gen"
    /\ workers = 1
    /\ items = <<>> /\ batches = <<>>
    /\ batch_size = 0
    /\ pc = "io"
    /\ task = <<>> /\ held = <<>> /\ merged = <<>>
    /\ ret = NoRet
    /\ last = NoneDoc
    /\ calls = 0
    /\ feedback = "empty"
    /\ prior = NoneDoc
    /\ prog = <<>>
    /\ written = {}
    /\ ParseUnused
    /\ ExtUnused

\* save_result(k, d) reaches  with open(file_path, 'w')  : the file is
\* truncated, or open raises and the call ends
SaveOpen(k, d) ==
    /\ io_pc # "writing"
    /\ io_key' = k
    /\ io_doc' = d
    /\ \E opened \in BOOLEAN :
          IF opened
          THEN /\ store' = Truncate(store, k)
               /\ io_pc' = "writing"
          ELSE /\ store' = store
               /\ io_pc' = "raised"
    /\ UNCHANGED <<committed, obs>>
    /\ UNCHANGED <<path, workers, items, batches, batch_size>>
    /\ UNCHANGED runVars
    /\ UNCHANGED partVars
    /\ UNCHANGED parseVars
    /\ UNCHANGED extVars

\* json.dump completes and the file is closed: save_result returns the path
SaveWrite ==
    /\ io_pc = "writing"
    /\ store' = WriteAll(store, io_key, io_doc)
    /\ committed' = [committed EXCEPT ![io_key] = JsonDump(io_doc)]
    /\ io_pc' = "saved"
    /\ UNCHANGED <<io_key, io_doc, obs>>
    /\ UNCHANGED <<path, workers, items, batches, batch_size>>
    /\ UNCHANGED runVars
    /\ UNCHANGED partVars
    /\ UNCHANGED parseVars
    /\ UNCHANGED extVars

\* json.dump or the write raises: the except clause logs and re-raises, the
\* truncated file stays
SaveWriteFails ==
    /\ io_pc = "writing"
    /\ io_pc' = "raised"
    /\ UNCHANGED <<store, io_key, io_doc, committed, obs>>
    /\ UNCHANGED <<path, workers, items, batches, batch_size>>
    /\ UNCHANGED runVars
    /\ UNCHANGED partVars
    /\ UNCHANGED parseVars
    /\ UNCHANGED extVars

\* load_result(k)
Load(k) ==
    /\ obs' = Observation(k, LoadResult(store, k), committed[k],
                          io_pc = "writing" /\ io_key = k,
                          IF io_pc = "writing" /\ io_key = k
                          THEN JsonDump(io_doc) ELSE NoneDoc,
                          io_pc = "raised" /\ io_key = k)
    /\ UNCHANGED <<store, io_pc, io_key, io_doc, committed>>
    /\ UNCHANGED <<path, workers, items, batches, batch_size>>
    /\ UNCHANGED runVars
    /\ UNCHANGED partVars
    /\ UNCHANGED parseVars
    /\ UNCHANGED extVars

IONext ==
    \/ \E k \in IOKeys, d \in IODocs : SaveOpen(k, d)
    \/ SaveWrite
    \/ SaveWriteFails
    \/ \E k \in IOKeys : Load(k)

SpecIO == IOInit /\ [][IONext]_vars

(***************************************************************************)
(* SpecParse: UnifiedJSONParser.parse and _smart_retry.  A response is     *)
(* described by the features the strategies react to; what a strategy      *)
(* returns on it is drawn from the outcomes its code can produce there.    *)
(***************************************************************************)
ListContexts == {"test_case_improvement", "test_case_generation"}

Contexts ==
    ListContexts \cup
    {"test_design", "requirement_analysis", "quality_assurance_review", "unknown"}

\* self._default_strategies
DefaultStrategies ==
    <<"_extract_json_block", "_direct_json_parse", "_fix_json_format",
      "_fix_json_aggressive", "_extract_json_fallback",
      "_extract_fallback_from_text">>

\* self._context_strategies.get(context, self._default_strategies)
ContextStrategies(ctx) ==
    IF ctx \in {"test_case_improvement", "test_design"}
    THEN <<"_extract_json_block", "_direct_json_parse", "_fix_json_format",
           "_fix_json_aggressive", "_extract_json_fallback",
           "_extract_fallback_from_text">>
    ELSE IF ctx \in {"test_case_generation", "quality_assurance_review"}
    THEN <<"_extract_json_block", "_direct_json_parse", "_fix_json_format",
           "_extract_json_fallback", "_extract_fallback_from_text">>
    ELSE IF ctx = "requirement_analysis"
    THEN <<"_extract_json_block", "_direct_json_parse", "_fix_json_format",
           "_extract_fallback_from_text">>
    ELSE DefaultStrategies

\* "empty": '';  "blank": whitespace only;  "plain": no brace or bracket;
\* "object": a non-empty JSON object;  "empty_object": '{}';
\* "array": a JSON array of scalars;  "broken": braces that need repair.
\* labels: the text holds one of the section labels the text extractors know.
Shapes == {"empty", "blank", "plain", "object", "empty_object", "array", "broken"}

Texts == [shape : Shapes, labels : BOOLEAN]

\* What one strategy call can do: return a non-empty dict ("mapping"), {}
\* ("empty_mapping"), a list or a scalar ("nonmapping"), None ("nothing"), or
\* raise ("throws").
\* _extract_fallback_from_text fills a skeleton dict before it searches for
\* labels, so `if result:` holds and it returns the dict whatever the text is;
\* its except branch returns None.
StrategyOutcomes(st, text) ==
    IF st = "_extract_fallback_from_text" THEN {"mapping", "nothing"}
    ELSE IF text.shape = "blank" THEN {"nothing"}
    ELSE IF text.shape = "plain"
         THEN IF st = "_direct_json_parse" THEN {"nothing", "nonmapping"}
              ELSE {"nothing"}
    ELSE IF text.shape = "array"
         THEN IF st \in {"_extract_json_block", "_direct_json_parse"}
              THEN {"nonmapping"}
              ELSE {"nothing"}
    ELSE IF text.shape = "empty_object"
         THEN IF st = "_extract_json_fallback" THEN {"nothing"}
              ELSE {"empty_mapping"}
    ELSE IF text.shape = "object"
         THEN IF st = "_direct_json_parse" THEN {"mapping"}
              ELSE {"mapping", "nothing"}
    ELSE {"mapping", "empty_mapping", "nonmapping", "nothing", "throws"}

AfterStrategyAnyTruthy(outcome) ==
    IF outcome \in {"mapping", "nonmapping"} THEN "return" ELSE "continue"

AfterStrategyUncaught(outcome) ==
    IF outcome = "mapping" THEN "return"
    ELSE IF outcome = "throws" THEN "raise"
    ELSE "continue"

\* the body of the loop over the strategies:
\*   try: result = strategy(response)
\*        if result and isinstance(result, dict): return result
\*   except Exception: continue
AfterStrategy(outcome) ==
    IF outcome = "mapping" THEN "return" ELSE "continue"

\* the steps _smart_retry takes, by context
RetrySteps(ctx) ==
    IF ctx = "test_case_improvement"
    THEN <<"_extract_test_cases_loosely", "_extract_any_json_fragment",
           "_deep_clean_response", "_fix_truncated_json",
           "_extract_test_cases_from_text">>
    ELSE <<"_fix_truncated_json">>

\* every helper of _smart_retry catches its own exceptions and returns None
RetryOutcomes(step, text) ==
    IF text.shape \in {"blank", "plain"}
    THEN IF step = "_extract_test_cases_from_text" /\ text.labels
         THEN {"mapping", "nothing"}
         ELSE {"nothing"}
    ELSE IF step = "_extract_test_cases_from_text" /\ ~text.labels
    THEN {"nothing"}
    ELSE IF step = "_extract_any_json_fragment"
    THEN {"mapping", "empty_mapping", "nonmapping", "nothing"}
    ELSE {"mapping", "nothing"}

\* _extract_any_json_fragment wraps a list it parsed: {"test_cases": result};
\* the other helpers hand on what they built
StepResult(step, raw) ==
    IF step = "_extract_any_json_fragment" /\ raw = "nonmapping"
    THEN "mapping"
    ELSE raw

\* `if result:` in _smart_retry and `if retry_result:` in parse
Truthy(result) == result \in {"mapping", "nonmapping"}

ParseInit ==
    /\ p_text \in Texts
    /\ p_ctx \in Contexts
    /\ p_pc = "start"
    /\ p_i = 0
    /\ p_trace = <<>>
    /\ p_rtrace = <<>>
    /\ p_ret = NoParseRet
    /\ store = EmptyStore
    /\ IOUnused
    /\ path = "gen"
    /\ workers = 1
    /\ items = <<>> /\ batches = <<>>
    /\ batch_size = 0
    /\ pc = "parse"
    /\ task = <<>> /\ held = <<>> /\ merged = <<>>
    /\ ret = NoRet
    /\ last = NoneDoc
    /\ calls = 0
    /\ feedback = "empty"
    /\ prior = NoneDoc
    /\ prog = <<>>
    /\ written = {}
    /\ ExtUnused

ParseReturn(r) ==
    /\ p_ret' = r
    /\ p_pc' = "done"

ParseFrame ==
    /\ UNCHANGED <<path, workers, items, batches, batch_size, store>>
    /\ UNCHANGED runVars
    /\ UNCHANGED partVars
    /\ UNCHANGED ioVars
    /\ UNCHANGED extVars

\* parse: `if not response or not isinstance(response, str): return None`,
\* then the choice of the chain
ParseEnter ==
    /\ p_pc = "start"
    /\ IF p_text.shape = "empty"
       THEN /\ ParseReturn(ParseRet("None", "guard", FALSE))
            /\ p_i' = p_i
       ELSE /\ p_pc' = "chain"
            /\ p_i' = 1
            /\ p_ret' = p_ret
    /\ UNCHANGED <<p_text, p_ctx, p_trace, p_rtrace>>
    /\ ParseFrame

\* one iteration of `for i, strategy in enumerate(strategies)`
ChainStep ==
    /\ p_pc = "chain"
    /\ p_i <= Len(ContextStrategies(p_ctx))
    /\ LET st == ContextStrategies(p_ctx)[p_i]
       IN  \E outcome \in StrategyOutcomes(st, p_text) :
              /\ p_trace' = Append(p_trace, <<st, outcome>>)
              /\ IF AfterStrategy(outcome) = "return"
                 THEN /\ ParseReturn(ParseRet(outcome, st, FALSE))
                      /\ p_i' = p_i
                 ELSE IF AfterStrategy(outcome) = "raise"
                 THEN /\ ParseReturn(ParseRet("None", st, TRUE))
                      /\ p_i' = p_i
                 ELSE /\ p_i' = p_i + 1
                      /\ UNCHANGED <<p_pc, p_ret>>
    /\ UNCHANGED <<p_text, p_ctx, p_rtrace>>
    /\ ParseFrame

\* after the loop: _smart_retry for the two list contexts, else return None
ChainExhausted ==
    /\ p_pc = "chain"
    /\ p_i > Len(ContextStrategies(p_ctx))
    /\ IF p_ctx \in {"test_case_improvement", "test_case_generation"}
       THEN /\ p_pc' = "retry"
            /\ p_i' = 1
            /\ p_ret' = p_ret
       ELSE /\ ParseReturn(ParseRet("None", "chain", FALSE))
            /\ p_i' = p_i
    /\ UNCHANGED <<p_text, p_ctx, p_trace, p_rtrace>>
    /\ ParseFrame

DeepCleanIndex(ctx) ==
    CHOOSE k \in 1..Len(RetrySteps(ctx)) :
        RetrySteps(ctx)[k] = "_deep_clean_response"

\* one step of _smart_retry; _deep_clean_response only leads to a re-run of
\* the default strategies when it changed the response
RetryStep ==
    /\ p_pc = "retry"
    /\ p_i <= Len(RetrySteps(p_ctx))
    /\ LET step == RetrySteps(p_ctx)[p_i]
       IN  IF step = "_deep_clean_response"
           THEN \E changed \in BOOLEAN :
                   /\ p_rtrace' = Append(p_rtrace,
                          <<step, IF changed THEN "changed" ELSE "same">>)
                   /\ IF changed
                      THEN p_pc' = "rerun" /\ p_i' = 1
                      ELSE p_pc' = p_pc /\ p_i' = p_i + 1
                   /\ p_ret' = p_ret
           ELSE \E raw \in RetryOutcomes(step, p_text) :
                   /\ p_rtrace' = Append(p_rtrace, <<step, raw>>)
                   /\ IF Truthy(StepResult(step, raw))
                      THEN /\ ParseReturn(ParseRet(StepResult(step, raw), step, FALSE))
                           /\ p_i' = p_i
                      ELSE /\ p_i' = p_i + 1
                           /\ UNCHANGED <<p_pc, p_ret>>
    /\ UNCHANGED <<p_text, p_ctx, p_trace>>
    /\ ParseFrame

\* the default strategies on the cleaned response, inside _smart_retry
RerunStep ==
    /\ p_pc = "rerun"
    /\ IF p_i <= Len(DefaultStrategies)
       THEN LET st == DefaultStrategies[p_i]
            IN  \E outcome \in StrategyOutcomes(st, p_text) :
                   /\ p_rtrace' = Append(p_rtrace, <<st, "rerun">>)
                   /\ IF AfterStrategy(outcome) = "return"
                      THEN /\ ParseReturn(ParseRet(outcome, st, FALSE))
                           /\ p_i' = p_i
                      ELSE /\ p_i' = p_i + 1
                           /\ UNCHANGED <<p_pc, p_ret>>
       ELSE /\ p_pc' = "retry"
            /\ p_i' = DeepCleanIndex(p_ctx) + 1
            /\ UNCHANGED <<p_rtrace, p_ret>>
    /\ UNCHANGED <<p_text, p_ctx, p_trace>>
    /\ ParseFrame

\* _smart_retry returns None; parse logs the failure and returns None
RetryExhausted ==
    /\ p_pc = "retry"
    /\ p_i > Len(RetrySteps(p_ctx))
    /\ ParseReturn(ParseRet("None", "_smart_retry", FALSE))
    /\ UNCHANGED <<p_text, p_ctx, p_i, p_trace, p_rtrace>>
    /\ ParseFrame

ParseNext ==
    \/ ParseEnter
    \/ ChainStep
    \/ ChainExhausted
    \/ RetryStep
    \/ RerunStep
    \/ RetryExhausted

SpecParse == ParseInit /\ [][ParseNext]_vars

(***************************************************************************)
(* SpecRepair: parse on a brace-delimited text of key: value pairs, such   *)
(* as {a: 1, b: 'x',}.  A key is written quoted or bare; a value is a      *)
(* number, a single-quoted or double-quoted string, or a bare word.  raw   *)
(* is the value as written, without the enclosing double quotes of a       *)
(* double-quoted string.                                                   *)
(***************************************************************************)
Pair(key, quoted, kind, raw) ==
    [key |-> key, quoted |-> quoted, kind |-> kind, raw |-> raw]

ValuesWritten ==
    {[kind |-> "number", raw |-> "1"],
     [kind |-> "single_quoted", raw |-> "'x'"],
     [kind |-> "double_quoted", raw |-> "x"],
     [kind |-> "bare", raw |-> "abc"]}

KeyNames == <<"a", "b", "c", "d">>

ObjectTexts ==
    {[pairs |-> [i \in 1..n |-> Pair(KeyNames[i], q[i], v[i].kind, v[i].raw)],
      trailing |-> t] :
        <<n, q, v, t>> \in
            UNION {{<<m, qq, vv, tt>> :
                       qq \in [1..m -> BOOLEAN],
                       vv \in [1..m -> ValuesWritten],
                       tt \in BOOLEAN} : m \in 1..MaxPairs}}

\* _clean_json_string: re.sub(r',(\s*[}\]])', r'\1', json_str) drops the
\* comma before the closing brace
CleanJsonString(obj) == [obj EXCEPT !.trailing = FALSE]

\* re.sub(r'([{,])\s*([a-zA-Z_][a-zA-Z0-9_]*)\s*:', r'\1"\2":', json_str)
QuoteKeys(obj) ==
    [obj EXCEPT !.pairs = [i \in 1..Len(obj.pairs) |->
                              [obj.pairs[i] EXCEPT !.quoted = TRUE]]]

\* re.sub(r':\s*([^",\s][^,}]*?)(?=\s*[,}])', r': "\1"', json_str): every
\* value that does not begin with a double quote is put between double
\* quotes as it stands
QuoteValues(obj) ==
    [obj EXCEPT !.pairs =
        [i \in 1..Len(obj.pairs) |->
            IF obj.pairs[i].kind = "double_quoted"
            THEN obj.pairs[i]
            ELSE [obj.pairs[i] EXCEPT !.kind = "double_quoted"]]]

\* what json.loads accepts: quoted keys, numbers and double-quoted strings,
\* no trailing comma
ValidJson(obj) ==
    /\ ~obj.trailing
    /\ \A i \in 1..Len(obj.pairs) :
          /\ obj.pairs[i].quoted
          /\ obj.pairs[i].kind \in {"number", "double_quoted"}

\* the dict json.loads builds: per key the type and the text of the value
JsonLoads(obj) ==
    [i \in 1..Len(obj.pairs) |->
        [key |-> obj.pairs[i].key,
         type |-> IF obj.pairs[i].kind = "number" THEN "number" ELSE "string",
         text |-> obj.pairs[i].raw]]

\* _extract_json_block: the braces are found, _clean_json_string, json.loads;
\* JSONDecodeError leads to the next pattern and in the end to None
ExtractJsonBlock(obj) ==
    LET cleaned == CleanJsonString(obj)
    IN  IF ValidJson(cleaned)
        THEN Parsed(JsonLoads(cleaned), "_extract_json_block")
        ELSE NotParsed

\* _direct_json_parse: json.loads(response.strip())
DirectJsonParse(obj) ==
    IF ValidJson(obj) THEN Parsed(JsonLoads(obj), "_direct_json_parse")
    ELSE NotParsed

\* _fix_json_format; on these texts json.loads succeeds after the three
\* substitutions, so its fallback _fix_json_aggressive is not reached
FixJsonFormat(obj) ==
    LET fixed == QuoteValues(QuoteKeys(CleanJsonString(obj)))
    IN  IF ValidJson(fixed)
        THEN Parsed(JsonLoads(fixed), "_fix_json_format")
        ELSE NotParsed

\* the first three strategies of every chain, in order
ParseObject(obj) ==
    IF ExtractJsonBlock(obj).ok THEN ExtractJsonBlock(obj)
    ELSE IF DirectJsonParse(obj).ok THEN DirectJsonParse(obj)
    ELSE FixJsonFormat(obj)

RepairInit ==
    /\ fx_in \in ObjectTexts
    /\ fx_pc = "start"
    /\ fx_out = NotParsed
    /\ RetryUnused
    /\ AliasUnused
    /\ FlowUnused
    /\ ParseUnused
    /\ store = EmptyStore
    /\ IOUnused
    /\ path = "gen"
    /\ workers = 1
    /\ items = <<>> /\ batches = <<>>
    /\ batch_size = 0
    /\ pc = "repair"
    /\ task = <<>> /\ held = <<>> /\ merged = <<>>
    /\ ret = NoRet
    /\ last = NoneDoc
    /\ calls = 0
    /\ feedback = "empty"
    /\ prior = NoneDoc
    /\ prog = <<>>
    /\ written = {}

\* parse(response, context)
ParseRepair ==
    /\ fx_pc = "start"
    /\ fx_out' = ParseObject(fx_in)
    /\ fx_pc' = "done"
    /\ UNCHANGED fx_in
    /\ UNCHANGED <<path, workers, items, batches, batch_size, store>>
    /\ UNCHANGED runVars
    /\ UNCHANGED partVars
    /\ UNCHANGED ioVars
    /\ UNCHANGED parseVars
    /\ UNCHANGED retryVars
    /\ UNCHANGED aliasVars
    /\ UNCHANGED flowVars

RepairNext == ParseRepair

SpecRepair == RepairInit /\ [][RepairNext]_vars

(***************************************************************************)
(* SpecRetry: the retry loop of _improve_with_llm and the single retry of  *)
(* _generate_feature_test_cases, one model round-trip per step.            *)
(***************************************************************************)
LlmBatches ==
    {<<Case(1, "original")>>, <<Case(1, "original"), Case(2, "original")>>}

\* the non-empty lists _parse_llm_response can hand back for a batch: every
\* case rewritten and valid, every case invalid, or the rewritten cases
\* followed by an added case that lacks a required field
ParsedLists(batch) ==
    {[i \in 1..Len(batch) |-> Case(i, "valid")],
     [i \in 1..Len(batch) |-> Case(i, "invalid")],
     [i \in 1..(Len(batch) + 1) |->
         IF i <= Len(batch) THEN Case(i, "valid") ELSE Case(i, "invalid")]}

\* _validate_test_case
ValidateTestCase(c) == c.state = "valid"

\* validated_cases: the cases of the list that pass, in order
Validated(cases) == SelectSeq(cases, ValidateTestCase)

MoreAttemptsOffByOne(attempt) == attempt <= MaxRetries

\* for attempt in range(max_retries)
MoreAttempts(attempt) == attempt < MaxRetries

\* if not test_cases: (retry once)
NeedsRetry(test_cases) == test_cases = <<>>

RetryInit ==
    /\ lr_fn \in {"improve", "feature"}
    /\ lr_batch \in LlmBatches
    /\ lr_pc = "start"
    /\ lr_attempt = 0
    /\ lr_trips = 0
    /\ lr_improved = <<>>
    /\ lr_hist = <<>>
    /\ lr_ret = <<>>
    /\ RepairUnused
    /\ AliasUnused
    /\ FlowUnused
    /\ ParseUnused
    /\ store = EmptyStore
    /\ IOUnused
    /\ path = "imp"
    /\ workers = 1
    /\ items = <<>> /\ batches = <<>>
    /\ batch_size = 0
    /\ pc = "retry"
    /\ task = <<>> /\ held = <<>> /\ merged = <<>>
    /\ ret = NoRet
    /\ last = NoneDoc
    /\ calls = 0
    /\ feedback = "empty"
    /\ prior = NoneDoc
    /\ prog = <<>>
    /\ written = {}

RetryFrame ==
    /\ UNCHANGED <<path, workers, items, batches, batch_size, store>>
    /\ UNCHANGED runVars
    /\ UNCHANGED partVars
    /\ UNCHANGED ioVars
    /\ UNCHANGED parseVars
    /\ UNCHANGED repairVars
    /\ UNCHANGED aliasVars
    /\ UNCHANGED flowVars

LlmReturn(val) ==
    /\ lr_ret' = val
    /\ lr_pc' = "done"

\* what the outer except clause returns: _improve_with_llm its argument,
\* _generate_feature_test_cases []
OuterExcept(fn, batch) == IF fn = "improve" THEN batch ELSE <<>>

\* the part before the first round-trip: the proxy and the prompt are built;
\* an exception there reaches the outer except clause
LlmSetup ==
    /\ lr_pc = "start"
    /\ \E raised \in BOOLEAN :
          IF raised
          THEN /\ LlmReturn(OuterExcept(lr_fn, lr_batch))
               /\ lr_hist' = Append(lr_hist, <<"setup_raises", <<>>>>)
          ELSE /\ lr_pc' = "loop"
               /\ UNCHANGED <<lr_ret, lr_hist>>
    /\ UNCHANGED <<lr_fn, lr_batch, lr_attempt, lr_trips, lr_improved>>
    /\ RetryFrame

\* one pass of the loop of _improve_with_llm
ImproveAttempt ==
    /\ lr_fn = "improve"
    /\ lr_pc = "loop"
    /\ MoreAttempts(lr_attempt)
    /\ lr_attempt' = lr_attempt + 1
    /\ lr_trips' = lr_trips + 1
    /\ \/ \E what \in {"chat_raises", "empty_response"} :
             /\ lr_hist' = Append(lr_hist, <<what, <<>>>>)
             /\ UNCHANGED <<lr_improved, lr_pc, lr_ret>>
       \/ /\ lr_hist' = Append(lr_hist, <<"unparsable", <<>>>>)
          /\ lr_improved' = <<>>
          /\ UNCHANGED <<lr_pc, lr_ret>>
       \/ \E parsed \in ParsedLists(lr_batch) :
             /\ lr_hist' = Append(lr_hist, <<"parsed", Validated(parsed)>>)
             /\ lr_improved' = parsed
             /\ IF Validated(parsed) = <<>>
                THEN UNCHANGED <<lr_pc, lr_ret>>
                ELSE LlmReturn(Validated(parsed))
    /\ UNCHANGED <<lr_fn, lr_batch>>
    /\ RetryFrame

\* after the loop: `if not improved_cases: return test_cases`, else
\* `return improved_cases`
ImproveLoopEnd ==
    /\ lr_fn = "improve"
    /\ lr_pc = "loop"
    /\ ~MoreAttempts(lr_attempt)
    /\ LlmReturn(IF lr_improved = <<>> THEN lr_batch ELSE lr_improved)
    /\ UNCHANGED <<lr_fn, lr_batch, lr_attempt, lr_trips, lr_improved, lr_hist>>
    /\ RetryFrame

\* _generate_feature_test_cases: the first call, and the retry made when the
\* first answer was parsed to no case
FeatureCall ==
    /\ lr_fn = "feature"
    /\ lr_pc = "loop"
    /\ lr_attempt' = lr_attempt + 1
    /\ lr_trips' = lr_trips + 1
    /\ \/ \E what \in {"chat_raises", "no_message"} :
             /\ lr_hist' = Append(lr_hist, <<what, <<>>>>)
             /\ lr_improved' = lr_improved
             /\ LlmReturn(<<>>)
       \/ \E test_cases \in {<<>>, <<Case(1, "valid")>>} :
             /\ lr_hist' = Append(lr_hist, <<"parsed", test_cases>>)
             /\ lr_improved' = test_cases
             /\ IF NeedsRetry(test_cases) /\ lr_attempt = 0
                THEN UNCHANGED <<lr_pc, lr_ret>>
                ELSE LlmReturn(test_cases)
    /\ UNCHANGED <<lr_fn, lr_batch>>
    /\ RetryFrame

RetryNext ==
    \/ LlmSetup
    \/ ImproveAttempt
    \/ ImproveLoopEnd
    \/ FeatureCall

SpecRetry == RetryInit /\ [][RetryNext]_vars

(***************************************************************************)
(* SpecAlias: QualityAssuranceAgent._improve_test_case on one test case,   *)
(* one improvement section per step.  A dict maps a key to the address of  *)
(* a list object; dict.copy() copies the addresses, not the lists.         *)
(***************************************************************************)
FieldOrder ==
    <<"preconditions", "steps", "expected_results", "boundary_conditions",
      "error_scenarios">>

Absent == [present |-> FALSE, val |-> <<>>]

Present(l) == [present |-> TRUE, val |-> l]

\* the values a caller's test case can have under each key
FieldChoices(f) ==
    IF f = "steps" THEN {Absent, Present(<<"s1">>), Present(<<" s1 ", "", "s2">>)}
    ELSE IF f = "expected_results" THEN {Absent, Present(<<>>), Present(<<"r1">>)}
    ELSE IF f = "boundary_conditions" THEN {Absent, Present(<<"b1">>)}
    ELSE IF f = "error_scenarios" THEN {Absent, Present(<<"e1">>)}
    ELSE {Absent, Present(<<"p1">>)}

\* the five titled sections of a review comment
Sections ==
    {"completeness", "clarity", "executability", "boundary_cases",
     "error_scenarios"}

\* the feedback argument: falsy, a dict without 'content', or a text whose
\* sections carry one suggestion each
Feedbacks ==
    {NoFeedback, [kind |-> "dict_no_content", sections |-> {}, boundary |-> "b1"]}
    \cup {[kind |-> "text", sections |-> s, boundary |-> b] :
             s \in SUBSET Sections, b \in {"b1", "b2"}}

\* the suggestions improvements[section] holds
Improvements(fb, section) ==
    IF section \notin fb.sections THEN <<>>
    ELSE IF section = "boundary_cases" THEN <<fb.boundary>>
    ELSE IF section = "error_scenarios" THEN <<"e2">>
    ELSE <<"suggestion">>

\* str.strip()
Strip(s) == IF s = " s1 " THEN "s1" ELSE s

\* [step.strip() for step in steps if step]
StripSteps(steps) ==
    LET kept == SelectSeq(steps, LAMBDA s : s # "")
    IN  [i \in 1..Len(kept) |-> Strip(kept[i])]

\* [x for x in suggestions if x not in existing]
NotIn(suggestions, existing) ==
    SelectSeq(suggestions,
              LAMBDA x : \A i \in 1..Len(existing) : existing[i] # x)

\* ['待补充'] * n
Placeholders(n) == [i \in 1..n |-> "tbd"]

\* the value a dict has under a key
FieldValue(heap, d, f) ==
    IF d[f] = 0 THEN Absent ELSE Present(heap[d[f]])

\* the caller's test case laid out on the heap, one list object per key
AddrOf(ch, k) ==
    IF ~ch[FieldOrder[k]].present THEN 0
    ELSE Cardinality({j \in 1..k : ch[FieldOrder[j]].present})

InputCase(ch) ==
    [f \in ListFields |->
        AddrOf(ch, CHOOSE k \in 1..Len(FieldOrder) : FieldOrder[k] = f)]

InputHeap(ch) ==
    LET n == Cardinality({f \in ListFields : ch[f].present})
    IN  [a \in 1..n |->
            ch[FieldOrder[CHOOSE k \in 1..Len(FieldOrder) : AddrOf(ch, k) = a]].val]

AliasInit ==
    /\ \E ch \in [ListFields -> UNION {FieldChoices(f) : f \in ListFields}] :
          /\ \A f \in ListFields : ch[f] \in FieldChoices(f)
          /\ al_in = InputCase(ch)
          /\ al_heap = InputHeap(ch)
          /\ al_before = [k \in 1..Len(FieldOrder) |-> ch[FieldOrder[k]]]
    /\ al_fb \in Feedbacks
    /\ al_out = NoCase
    /\ al_pc = "start"
    /\ RepairUnused
    /\ RetryUnused
    /\ FlowUnused
    /\ ParseUnused
    /\ store = EmptyStore
    /\ IOUnused
    /\ path = "qa"
    /\ workers = 1
    /\ items = <<>> /\ batches = <<>>
    /\ batch_size = 0
    /\ pc = "alias"
    /\ task = <<>> /\ held = <<>> /\ merged = <<>>
    /\ ret = NoRet
    /\ last = NoneDoc
    /\ calls = 0
    /\ feedback = "empty"
    /\ prior = NoneDoc
    /\ prog = <<>>
    /\ written = {}

AliasFrame ==
    /\ UNCHANGED <<al_fb, al_in, al_before>>
    /\ UNCHANGED <<path, workers, items, batches, batch_size, store>>
    /\ UNCHANGED runVars
    /\ UNCHANGED partVars
    /\ UNCHANGED ioVars
    /\ UNCHANGED parseVars
    /\ UNCHANGED repairVars
    /\ UNCHANGED retryVars
    /\ UNCHANGED flowVars

\* dict.copy(): a new dict whose keys refer to the same objects
ShallowCopy(d) == d

\* the guards on the feedback, then improved_case = test_case.copy()
ImproveStart ==
    /\ al_pc = "start"
    /\ IF al_fb.kind # "text"
       THEN /\ al_out' = al_in
            /\ al_pc' = "done"
       ELSE /\ al_out' = ShallowCopy(al_in)
            /\ al_pc' = "completeness"
    /\ UNCHANGED al_heap
    /\ AliasFrame

\* a missing required field becomes a new empty list
ImproveCompleteness ==
    /\ al_pc = "completeness"
    /\ al_pc' = "clarity"
    /\ IF Improvements(al_fb, "completeness") = <<>>
       THEN UNCHANGED <<al_heap, al_out>>
       ELSE LET missing == {f \in {"preconditions", "steps", "expected_results"} :
                               al_out[f] = 0}
                rank(f) == Cardinality({k \in 1..Len(FieldOrder) :
                               /\ FieldOrder[k] \in missing
                               /\ \E m \in 1..Len(FieldOrder) :
                                     FieldOrder[m] = f /\ k <= m})
            IN  /\ al_heap' = al_heap \o [i \in 1..Cardinality(missing) |-> <<>>]
                /\ al_out' = [f \in ListFields |->
                                 IF f \in missing THEN Len(al_heap) + rank(f)
                                 ELSE al_out[f]]
    /\ AliasFrame

\* improved_case['steps'] is rebound to a new, stripped list
ImproveClarity ==
    /\ al_pc = "clarity"
    /\ al_pc' = "executability"
    /\ IF Improvements(al_fb, "clarity") # <<>> /\ al_out["steps"] # 0
       THEN /\ al_heap' = Append(al_heap, StripSteps(al_heap[al_out["steps"]]))
            /\ al_out' = [al_out EXCEPT !["steps"] = Len(al_heap) + 1]
       ELSE UNCHANGED <<al_heap, al_out>>
    /\ AliasFrame

\* results = improved_case.get('expected_results', []); results.extend(...)
ImproveExecutability ==
    /\ al_pc = "executability"
    /\ al_pc' = "boundary"
    /\ LET steps == FieldValue(al_heap, al_out, "steps").val
           had == al_out["expected_results"] # 0
           heap0 == IF had THEN al_heap ELSE Append(al_heap, <<>>)
           results == IF had THEN al_out["expected_results"] ELSE Len(al_heap) + 1
       IN  IF Improvements(al_fb, "executability") # <<>> /\ steps # <<>>
           THEN /\ al_heap' =
                      IF Len(steps) > Len(heap0[results])
                      THEN [heap0 EXCEPT ![results] =
                               @ \o Placeholders(Len(steps) - Len(@))]
                      ELSE heap0
                /\ al_out' = [al_out EXCEPT !["expected_results"] = results]
           ELSE UNCHANGED <<al_heap, al_out>>
    /\ AliasFrame

\* lst = improved_case.setdefault(key, []); lst.extend(new suggestions)
ExtendField(f, section, next) ==
    /\ al_pc' = next
    /\ LET had == al_out[f] # 0
           heap0 == IF had THEN al_heap ELSE Append(al_heap, <<>>)
           lst == IF had THEN al_out[f] ELSE Len(al_heap) + 1
       IN  IF Improvements(al_fb, section) # <<>>
           THEN /\ al_heap' = [heap0 EXCEPT ![lst] =
                                  @ \o NotIn(Improvements(al_fb, section), @)]
                /\ al_out' = [al_out EXCEPT ![f] = lst]
           ELSE UNCHANGED <<al_heap, al_out>>
    /\ AliasFrame

ImproveBoundary ==
    /\ al_pc = "boundary"
    /\ ExtendField("boundary_conditions", "boundary_cases", "errors")

ImproveErrorScenarios ==
    /\ al_pc = "errors"
    /\ ExtendField("error_scenarios", "error_scenarios", "validate")

\* _validate_improvements: every key of the original is a key of the copy
ValidateImprovements(original, improved) ==
    \A f \in ListFields : original[f] # 0 => improved[f] # 0

ImproveReturn ==
    /\ al_pc = "validate"
    /\ al_pc' = "done"
    /\ al_out' = IF ValidateImprovements(al_in, al_out) THEN al_out ELSE al_in
    /\ UNCHANGED al_heap
    /\ AliasFrame

AliasNext ==
    \/ ImproveStart
    \/ ImproveCompleteness
    \/ ImproveClarity
    \/ ImproveExecutability
    \/ ImproveBoundary
    \/ ImproveErrorScenarios
    \/ ImproveReturn

SpecAlias == AliasInit /\ [][AliasNext]_vars

(***************************************************************************)
(* SpecFlow: AITestingSystem.process_requirements around                   *)
(* AssistantAgent.coordinate_workflow, one stage call per step.  A stage   *)
(* call is _handle_agent_communication(..., to_agent) or, for the          *)
(* improvement, improve_test_cases; the calls are synchronous.             *)
(***************************************************************************)
Stages == <<"analysis", "design", "writing", "review", "improvement">>

Rank(stage) == CHOOSE k \in 1..Len(Stages) : Stages[k] = stage

\* the status coordinate_workflow returns when the analysis is to be revised
NeedsRevisionStatus == "needs_revision"

\* the status process_requirements compares with
RevisionCheckStatus == "needs_revison"

Called(stage) == <<"call", stage>>

Returned(stage) == <<"ret", stage>>

Raised(stage) == <<"raise", stage>>

FlowInit ==
    /\ wf_pc = "analysis"
    /\ wf_trace = <<>>
    /\ wf_design = "unset"
    /\ wf_cases = "unset"
    /\ wf_ckpt \in {"none", "earlier"}
    /\ wf_generated = FALSE
    /\ wf_result = "none"
    /\ wf_path \in BOOLEAN
    /\ wf_out = NoOutcome
    /\ RepairUnused
    /\ RetryUnused
    /\ AliasUnused
    /\ ParseUnused
    /\ store = EmptyStore
    /\ IOUnused
    /\ path = "gen"
    /\ workers = 1
    /\ items = <<>> /\ batches = <<>>
    /\ batch_size = 0
    /\ pc = "flow"
    /\ task = <<>> /\ held = <<>> /\ merged = <<>>
    /\ ret = NoRet
    /\ last = NoneDoc
    /\ calls = 0
    /\ feedback = "empty"
    /\ prior = NoneDoc
    /\ prog = <<>>
    /\ written = {}

FlowFrame ==
    /\ UNCHANGED wf_path
    /\ UNCHANGED <<path, workers, items, batches, batch_size, store>>
    /\ UNCHANGED runVars
    /\ UNCHANGED partVars
    /\ UNCHANGED ioVars
    /\ UNCHANGED parseVars
    /\ UNCHANGED repairVars
    /\ UNCHANGED retryVars
    /\ UNCHANGED aliasVars

\* coordinate_workflow returns a dict with this status, or lets the
\* exception out ("raised")
CoordinateEnds(status) ==
    /\ wf_result' = status
    /\ wf_pc' = "coordinated"

\* 1. requirement analysis, then the confirmation round: a confirmation
\* holding '需要调整' or '不正确' ends the workflow
FlowAnalysis ==
    /\ wf_pc = "analysis"
    /\ \/ /\ wf_trace' = wf_trace \o <<Called("analysis"), Raised("analysis")>>
          /\ CoordinateEnds("raised")
       \/ /\ wf_trace' = wf_trace \o <<Called("analysis"), Returned("analysis")>>
          /\ \E confirmation \in {"none", "needs_adjusting", "correct"} :
                IF confirmation = "needs_adjusting"
                THEN CoordinateEnds(NeedsRevisionStatus)
                ELSE /\ wf_pc' = "design"
                     /\ UNCHANGED wf_result
    /\ UNCHANGED <<wf_design, wf_cases, wf_ckpt, wf_generated, wf_out>>
    /\ FlowFrame

DesignEmptyIgnored(design) == FALSE

\* `not design_result or not any(design_result.values())`
DesignEmpty(design) == design \in {"None", "empty"}

\* 2. test design: the handler returns the validated response, None when
\* the agent has no design method, or raises
FlowDesign ==
    /\ wf_pc = "design"
    /\ \/ /\ wf_trace' = wf_trace \o <<Called("design"), Raised("design")>>
          /\ CoordinateEnds("raised")
          /\ UNCHANGED wf_design
       \/ \E design \in {"None", "filled"} :
             /\ wf_trace' = wf_trace \o <<Called("design"), Returned("design")>>
             /\ wf_design' = design
             /\ IF DesignEmpty(design)
                THEN CoordinateEnds("completed")
                ELSE /\ wf_pc' = "writing"
                     /\ UNCHANGED wf_result
    /\ UNCHANGED <<wf_cases, wf_ckpt, wf_generated, wf_out>>
    /\ FlowFrame

\* what generate comes to inside the handler: cases (saved under
\* 'test_case_writer'), cases that TestCase(**case) then rejects, no case,
\* or an exception; the except clause of the handler returns []
GenerateOutcomes == {"cases", "cases_rejected", "no_case", "raises"}

\* the handler for 'test_case_writer': None for an empty strategy or an
\* agent without generate, else the list generate returned or []
WriterResult(design, usable, outcome) ==
    IF DesignEmpty(design) \/ design = "unset" \/ ~usable THEN "None"
    ELSE IF outcome = "cases" THEN "cases"
    ELSE "empty"

\* `if test_cases is None`
WritingFailed(test_cases) == test_cases = "None"

\* 3. test-case writing
FlowWriting ==
    /\ wf_pc = "writing"
    /\ \E usable \in BOOLEAN, outcome \in GenerateOutcomes :
          LET ran == WriterResult(wf_design, usable, "cases") = "cases"
              made == ran /\ outcome \in {"cases", "cases_rejected"}
          IN  /\ wf_trace' = wf_trace \o <<Called("writing"), Returned("writing")>>
              /\ wf_cases' = WriterResult(wf_design, usable, outcome)
              /\ wf_generated' = made
              /\ wf_ckpt' = IF made THEN "current" ELSE wf_ckpt
              /\ IF WritingFailed(wf_cases')
                 THEN CoordinateEnds("completed")
                 ELSE /\ wf_pc' = "review"
                      /\ UNCHANGED wf_result
    /\ UNCHANGED <<wf_design, wf_out>>
    /\ FlowFrame

\* 4. quality review: QualityAssuranceRequest(test_cases=None) is rejected
\* by the schema, an agent without review gives None
FlowReview ==
    /\ wf_pc = "review"
    /\ \/ /\ wf_trace' = wf_trace \o <<Called("review"), Raised("review")>>
          /\ CoordinateEnds("raised")
       \/ /\ wf_cases # "None"
          /\ wf_trace' = wf_trace \o <<Called("review"), Returned("review")>>
          /\ \E usable \in BOOLEAN :
                /\ wf_pc' = IF usable THEN "improve" ELSE "finish"
                /\ UNCHANGED wf_result
    /\ UNCHANGED <<wf_design, wf_cases, wf_ckpt, wf_generated, wf_out>>
    /\ FlowFrame

\* improve_test_cases(test_cases, review_comments): a truthy result is saved
\* under 'test_case_writer'; for [] it returns [] and nothing is saved
FlowImprove ==
    /\ wf_pc = "improve"
    /\ wf_trace' = wf_trace \o <<Called("improvement"), Returned("improvement")>>
    /\ wf_ckpt' = IF wf_cases = "cases" THEN "current" ELSE wf_ckpt
    /\ wf_pc' = "finish"
    /\ UNCHANGED <<wf_design, wf_cases, wf_generated, wf_result, wf_out>>
    /\ FlowFrame

\* return self._process_coordination_result(self.agent.last_message())
FlowFinish ==
    /\ wf_pc = "finish"
    /\ \E status \in {"completed", "in_progress", "error", "raised"} :
          CoordinateEnds(status)
    /\ UNCHANGED <<wf_trace, wf_design, wf_cases, wf_ckpt, wf_generated, wf_out>>
    /\ FlowFrame

\* process_requirements after coordinate_workflow: the status check, the
\* load of 'test_case_writer', the export
FlowProcess ==
    /\ wf_pc = "coordinated"
    /\ wf_pc' = "done"
    /\ IF wf_result = "raised"
       THEN wf_out' = Outcome("error", "none", FALSE, FALSE)
       ELSE IF wf_result = RevisionCheckStatus
       THEN wf_out' = Outcome("error", "none", FALSE, FALSE)
       ELSE IF wf_ckpt = "none"
       THEN wf_out' = Outcome("error", "none", TRUE, FALSE)
       ELSE IF ~wf_path
       THEN wf_out' = Outcome("success", wf_ckpt, TRUE, FALSE)
       ELSE \E exported \in BOOLEAN :
               wf_out' = IF exported
                         THEN Outcome("success", wf_ckpt, TRUE, TRUE)
                         ELSE Outcome("raised", "none", TRUE, FALSE)
    /\ UNCHANGED <<wf_trace, wf_design, wf_cases, wf_ckpt, wf_generated, wf_result>>
    /\ FlowFrame

FlowNext ==
    \/ FlowAnalysis
    \/ FlowDesign
    \/ FlowWriting
    \/ FlowReview
    \/ FlowImprove
    \/ FlowFinish
    \/ FlowProcess

SpecFlow == FlowInit /\ [][FlowNext]_vars

(***************************************************************************)
(* Properties.                                                             *)
(***************************************************************************)
ConcurrentRunReturned ==
    pc = "returned" /\ workers > 1 /\ Len(task) > 0 /\ AllCollected

\* what the collection loop took over from batch b: the value its future
\* returned, or what the except branch put in its place
TakenFrom(b) ==
    IF ~task[b].raised THEN task[b].res
    ELSE IF path = "gen" THEN batches[b]
    ELSE <<>>

\* C1: in every concurrent path, once all batches have resolved the merged
\* result is the concatenation of the batch results in ascending batch-index
\* order, whatever the completion order was.
C1_MergedInIndexOrder ==
    ConcurrentRunReturned =>
        merged = Flatten([b \in 1..Len(task) |-> TakenFrom(b)])

IsSubSeq(s, t) ==
    \E i \in 0..(Len(t) - Len(s)) : SubSeq(t, i + 1, i + Len(s)) = s

\* C2: a batch whose processing raised contributes exactly its original,
\* unmodified items to the merged result (never nothing), in all three
\* concurrent paths, and the orchestration path returns.
C2_FailedBatchKeepsOriginal ==
    ConcurrentRunReturned =>
        \A b \in 1..Len(task) :
            task[b].raised => IsSubSeq(batches[b], merged)

\* C3: the batches of the sequential and of the concurrent paths are
\* non-empty and contiguous, and concatenated in index order they reproduce
\* the input list, each item exactly once.
C3_PartitionExact ==
    pc = "part" =>
        /\ Len(batches) >= 1
        /\ \A k \in 1..Len(batches) : Len(batches[k]) >= 1
        /\ \A k \in 1..Len(batches) : \A j \in 1..(Len(batches[k]) - 1) :
               batches[k][j + 1].id = batches[k][j].id + 1
        /\ \A k \in 1..(Len(batches) - 1) :
               batches[k + 1][1].id = batches[k][Len(batches[k])].id + 1
        /\ Flatten(batches) = items
        /\ \A i \in 1..Len(items) :
               Cardinality({kj \in {<<k, j>> : k \in 1..Len(batches),
                                               j \in 1..batch_size} :
                               /\ kj[2] <= Len(batches[kj[1]])
                               /\ batches[kj[1]][kj[2]] = items[i]}) = 1

\* a concurrent partition with batches of two or more items whose last batch
\* is shorter than the others
C3_Witness ==
    /\ pc = "part"
    /\ workers > 1
    /\ batch_size >= 2
    /\ Len(batches) >= 3
    /\ Len(batches[Len(batches)]) < batch_size

\* C4: with a stage-level checkpoint present, running generate / review again
\* skips the run: no worker or model call is made and the cached result is
\* returned.
C4_CheckpointSkipsRun ==
    (ret.done /\ prior # NoneDoc /\ path \in {"gen", "qa"}) =>
        /\ calls = 0
        /\ ~ret.raised
        /\ ret.val = prior.cases

\* C5: a load_result(k) that overlaps a save_result(k, v), or follows a failed
\* one, returns the complete previous content (None when there was none) or
\* the complete new content.
C5_LoadNeverPartial ==
    obs.seen =>
        \/ obs.val = obs.prev
        \/ obs.writing /\ obs.val = obs.new

SomeSaveFailed ==
    \/ ret.stage_save \in {"open_failed", "write_failed"}
    \/ \E b \in 1..Len(task) : task[b].save = "failed"

\* C6: when a per-batch or the stage-level save fails, the stage still
\* returns the merged result it computed: not the original input, and no
\* exception.
C6_SaveFailureKeepsResult ==
    (ret.done /\ ret.via \in {"normal", "save_error"} /\ SomeSaveFailed) =>
        /\ ~ret.raised
        /\ ret.val = merged

\* C7: no entry point of the pipeline lets an exception escape to its caller.
C7_NoExceptionEscapes ==
    ret.done => ~ret.raised

RECURSIVE SumResultLengths(_)
SumResultLengths(n) ==
    IF n = 0 THEN 0 ELSE SumResultLengths(n - 1) + Len(task[n].res)

ReviewRanWithoutFailure ==
    /\ path = "qa"
    /\ pc = "returned"
    /\ ret.via = "normal"
    /\ \A b \in 1..Len(task) : ~task[b].raised

\* C8: when no batch fails, quality review returns exactly one reviewed case
\* per input case, sequentially and concurrently: the batch result lengths
\* sum to len(test_cases).
C8_OneReviewedCasePerInput ==
    ReviewRanWithoutFailure =>
        /\ SumResultLengths(Len(task)) = Len(items)
        /\ Len(ret.val) = Len(items)
        /\ \A i \in 1..Len(items) :
               Cardinality({j \in 1..Len(ret.val) : ret.val[j].id = items[i].id}) = 1

\* a concurrent review of several batches, collected out of index order
C8_Witness ==
    /\ ReviewRanWithoutFailure
    /\ workers > 1
    /\ Len(task) >= 3
    /\ feedback = "suggestions"
    /\ ret.val[1].id # items[1].id

\* C9: after a successful save_result(k, v), load_result(k) returns a value
\* equal to v until the next successful save to k.
C9_LoadReturnsLastSaved ==
    (obs.seen /\ ~obs.writing /\ obs.prev # NoneDoc) => obs.val = obs.prev

\* C10: the checkpoint keys written by different batch tasks of a run are
\* pairwise distinct: batch i writes only <prefix>_batch_<i+1>, and a feature
\* writes only the key numbered by its position in the whole feature list.
C10_DistinctKeysPerTask ==
    /\ \A x \in written : \A y \in written : x[1] = y[1] => x[2] = y[2]
    /\ \A x \in written :
          IF path = "gen"
          THEN x[1] = Key("test_case_writer_feature", x[3])
          ELSE x[1] = Key(BatchPrefix(path), x[2] + 1)

\* two feature batches of two features each have saved all their features
C10_Witness ==
    /\ path = "gen"
    /\ workers > 1
    /\ batch_size >= 2
    /\ \E x \in written : \E y \in written :
          /\ x[2] # y[2]
          /\ x[3] = x[2] * batch_size + 2
          /\ y[3] = y[2] * batch_size + 2

\* the result of batch b that the collection loop keeps for the merge
KeptResult(b) ==
    IF path = "qa"
    THEN IF task[b].raised THEN <<>> ELSE task[b].res
    ELSE IF held[b].set THEN held[b].val ELSE <<>>

\* C11: in the concurrent paths a batch result that is kept for the merge
\* (the fallback of a failed batch included) was saved under a checkpoint key
\* of that batch before, and nothing is merged while a submitted batch has not
\* resolved.
C11_SavedBeforeHeldMergedAfterAll ==
    (workers > 1 /\ pc = "pool") =>
        /\ \A b \in 1..Len(task) :
               (task[b].st = "collected" /\ KeptResult(b) # <<>>) =>
                   task[b].save # "none"
        /\ merged # <<>> => AllCollected

\* C12: a stage run that saved its merged result under the stage-level key
\* and returned leaves none of the per-batch checkpoint entries in the store,
\* unless a removal failed.
C12_BatchEntriesRemoved ==
    (ret.done /\ ret.via = "normal" /\ ret.stage_save = "ok"
              /\ ret.cleanup # "failed") =>
        Existing(store, BatchPrefix(path)) = {}

\* the file under the stage-level key as the run found it
InitialStageFile == IF prior = NoneDoc THEN NoFile ELSE FullFile(prior)

\* C13: with an empty list improve_test_cases, review and the inner
\* orchestration functions return an empty result: no batch, no worker call,
\* no checkpoint written, no exception.
C13_EmptyInputShortCircuits ==
    (ret.done /\ path \in {"imp", "qa"} /\ Len(items) = 0) =>
        /\ ~ret.raised
        /\ ret.val = <<>>
        /\ batches = <<>> /\ task = <<>>
        /\ calls = 0
        /\ store = [k \in AllKeys |->
                      IF k = StageKey(path) THEN InitialStageFile ELSE NoFile]

\* a concurrent review function called with an empty list has returned
C13_Witness ==
    /\ ret.done
    /\ path = "qa"
    /\ workers > 1
    /\ Len(items) = 0
    /\ ret.via \in {"empty", "inner_empty"}
    /\ prior # NoneDoc

\* C14: with concurrency > 1 the number of batches is
\* num_batches = min(N, 2 * concurrency); all batches have
\* batch_size = max(1, N // num_batches) items but the last, which takes the
\* remainder as well.
C14_BatchCountIsNumBatches ==
    (pc = "part" /\ workers > 1) =>
        LET n == Len(items)
            num_batches == Min(n, workers * BatchesPerWorker)
            bs == Max(1, n \div num_batches)
        IN  /\ Len(batches) = num_batches
            /\ \A k \in 1..(Len(batches) - 1) : Len(batches[k]) = bs
            /\ Len(batches[Len(batches)]) = n - (num_batches - 1) * bs

\* C15: at every moment of a concurrent run at most concurrent_workers batch
\* tasks execute, and concurrent_workers is at least 1 whatever the
\* constructor was given.
C15_PoolBounded ==
    /\ workers >= 1
    /\ Cardinality(Running) <= workers

\* the pool is full and a submitted task waits in its queue
C15_Witness ==
    /\ pc = "pool"
    /\ workers = 2
    /\ Cardinality(Running) = workers
    /\ \E b \in 1..Len(task) : task[b].st = "pending"

\* C16: while a batch task of a concurrent run has not returned, the stage
\* has not returned and the stage-level checkpoint has not been written,
\* whatever the other batches have done.
C16_StuckBatchBlocksStage ==
    (workers > 1 /\ \E b \in 1..Len(task) : task[b].st \in {"pending", "running"}) =>
        /\ ~ret.done
        /\ pc = "pool"
        /\ store[StageKey(path)] = InitialStageFile

\* one batch task still runs; every other batch has returned, saved its
\* checkpoint and been collected
C16_Witness ==
    /\ pc = "pool"
    /\ Len(task) >= 3
    /\ \E b \in 1..Len(task) :
          /\ task[b].st = "running"
          /\ \A a \in (1..Len(task)) \ {b} :
                 /\ task[a].st = "collected"
                 /\ task[a].save = "ok"
                 /\ path # "gen" => store[BatchKey(path, a - 1)].st = "full"

\* C17: parse never raises, for any string and any context, whatever each
\* strategy does; neither does the smart retry.
C17_ParseNeverRaises ==
    p_ret.done => ~p_ret.raised

\* a strategy of the chain threw, the chain ended without a result, the
\* smart retry ran, and parse returned
C17_Witness ==
    /\ p_ret.done
    /\ \E k \in 1..Len(p_trace) : p_trace[k][2] = "throws"
    /\ p_rtrace # <<>>

ReturnsMapping(outcome) == outcome \in {"mapping", "empty_mapping"}

\* C18: parse calls the strategies of the context's chain in list order; the
\* first one that returns a mapping, however incomplete, ends the chain and
\* is the result; a strategy that throws counts as one that returns nothing.
C18_FirstMappingWins ==
    LET chain == ContextStrategies(p_ctx)
    IN  /\ Len(p_trace) <= Len(chain)
        /\ \A k \in 1..Len(p_trace) : p_trace[k][1] = chain[k]
        /\ \A k \in 1..Len(p_trace) :
              ReturnsMapping(p_trace[k][2]) =>
                  /\ k = Len(p_trace)
                  /\ p_ret.done /\ p_ret.val = "mapping" /\ p_ret.by = chain[k]

\* C19: for a non-empty text without brace, bracket or section label parse
\* returns None.
C19_UnrecoverableTextGivesNone ==
    (p_ret.done /\ p_text.shape = "plain" /\ ~p_text.labels) =>
        p_ret.val = "None"

ChainYieldedNothing ==
    /\ Len(p_trace) = Len(ContextStrategies(p_ctx))
    /\ AfterStrategy(p_trace[Len(p_trace)][2]) # "return"

IsRetryStep(e) == e[2] # "rerun"

RetryStepsTried ==
    LET steps == SelectSeq(p_rtrace, IsRetryStep)
    IN  [k \in 1..Len(steps) |-> steps[k][1]]

ClaimedRetrySteps ==
    <<"_extract_test_cases_loosely", "_extract_any_json_fragment",
      "_deep_clean_response", "_extract_test_cases_from_text">>

\* C20: for both list contexts, and for no other, an empty-handed chain is
\* followed by the smart retry, which tries loose list extraction, fragment
\* extraction, deep clean with a re-run of the chain, and label-based
\* synthesis, in this order, and returns the first result or None.
C20_SmartRetryOrder ==
    /\ p_rtrace # <<>> => p_ctx \in ListContexts
    /\ (p_ret.done /\ p_ctx \in ListContexts /\ ChainYieldedNothing) =>
          /\ RetryStepsTried # <<>>
          /\ Len(RetryStepsTried) <= Len(ClaimedRetrySteps)
          /\ \A k \in 1..Len(RetryStepsTried) :
                k <= Len(ClaimedRetrySteps) =>
                    RetryStepsTried[k] = ClaimedRetrySteps[k]
          /\ p_ret.val = "None" => RetryStepsTried = ClaimedRetrySteps

\* C21: whatever the strategies return, parse returns None or a mapping,
\* never a list, a string or a number, also when the result comes from the
\* smart retry.
C21_ReturnsNoneOrMapping ==
    p_ret.done => p_ret.val \in {"None", "mapping", "empty_mapping"}

\* strategies of the chain returned lists or scalars, the chain ended
\* empty-handed, and the smart retry returned a list it had parsed, wrapped
C21_Witness ==
    /\ p_ret.done
    /\ p_ret.by = "_extract_any_json_fragment"
    /\ \E k \in 1..Len(p_trace) : p_trace[k][2] = "nonmapping"
    /\ p_rtrace[Len(p_rtrace)] = <<"_extract_any_json_fragment", "nonmapping">>

\* the text {a: 1, b: 'x',}
UnquotedSingleQuotedTrailing ==
    [pairs |-> <<Pair("a", FALSE, "number", "1"),
                 Pair("b", FALSE, "single_quoted", "'x'")>>,
     trailing |-> TRUE]

\* C22: parse of {a: 1, b: 'x',} returns {"a": 1, "b": "x"}: the number
\* stays a number, the quotes of 'x' are removed, and the result comes from
\* _fix_json_format.
C22_LightRepairExample ==
    (fx_pc = "done" /\ fx_in = UnquotedSingleQuotedTrailing) =>
        /\ fx_out.ok
        /\ fx_out.by = "_fix_json_format"
        /\ fx_out.pairs = <<[key |-> "a", type |-> "number", text |-> "1"],
                            [key |-> "b", type |-> "string", text |-> "x"]>>

\* C23: for a non-empty batch _improve_with_llm returns a non-empty list of
\* cases that all passed _validate_test_case, or, when all retries failed,
\* the input batch unchanged; never a case that failed validation.
C23_ValidatedOrOriginal ==
    (lr_fn = "improve" /\ lr_pc = "done") =>
        \/ lr_ret = lr_batch
        \/ /\ lr_ret # <<>>
           /\ \A i \in 1..Len(lr_ret) : ValidateTestCase(lr_ret[i])

C24_StageKeyHoldsReturned ==
    (pc = "returned" /\ path \in {"gen", "imp", "qa"} /\ ~ret.raised) =>
        /\ store[StageKey(path)].st = "full"
        /\ store[StageKey(path)].doc.cases = ret.val

\* C25: quality review leaves the caller's test cases unchanged: when
\* _improve_test_case has returned, each list field of the input case
\* (steps, expected_results, boundary_conditions, error_scenarios) has the
\* value it had before the call.
C25_InputCaseUnchanged ==
    al_pc = "done" =>
        \A k \in 1..Len(FieldOrder) :
            FieldValue(al_heap, al_in, FieldOrder[k]) = al_before[k]

\* C26: process_requirements reports 'success' only with test cases of the
\* current workflow run; when the run generated no test case it returns
\* 'error' and exports nothing, even with a 'test_case_writer' checkpoint of
\* an earlier run in the store.
C26_SuccessOnlyWithCurrentCases ==
    wf_pc = "done" =>
        /\ wf_out.status = "success" => wf_out.cases = "current"
        /\ ~wf_generated => (wf_out.status = "error" /\ ~wf_out.exported)

\* C27: when coordinate_workflow ends with the status saying the requirement
\* analysis needs revision, process_requirements returns an error and goes
\* on neither to load, nor to export, nor to return test cases.
C27_RevisionStopsProcessing ==
    (wf_pc = "done" /\ wf_result = NeedsRevisionStatus) =>
        /\ wf_out.status = "error"
        /\ ~wf_out.loaded
        /\ ~wf_out.exported
        /\ wf_out.cases = "none"

\* C28: coordinate_workflow calls the stages in the order analysis, design,
\* writing, review, improvement, each at most once and each after the
\* previous call returned; writing is not called when the design result is
\* empty, review and improvement are not called when writing returned None.
C28_StagesInOrder ==
    /\ \A i, j \in 1..Len(wf_trace) :
          (i < j /\ wf_trace[i][1] = "call" /\ wf_trace[j][1] = "call")
              => Rank(wf_trace[i][2]) < Rank(wf_trace[j][2])
    /\ \A i \in 2..Len(wf_trace) :
          wf_trace[i][1] = "call" => wf_trace[i - 1][1] = "ret"
    /\ \A i \in 1..Len(wf_trace) :
          /\ wf_trace[i] = Called("writing") => wf_design = "filled"
          /\ wf_trace[i] \in {Called("review"), Called("improvement")}
                => wf_cases # "None"

\* all five stages were called and process_requirements has returned
C28_Witness ==
    /\ wf_pc = "done"
    /\ Len(wf_trace) = 2 * Len(Stages)
    /\ wf_trace[Len(wf_trace)] = Returned("improvement")

\* the round-trips a stage function makes outside its batches: the feedback
\* chat of review, the whole-strategy generation after an empty merge
C30_CallsOutsideBatches ==
    (IF path = "qa" THEN 1 ELSE 0) + (IF ret.via = "whole" THEN 1 ELSE 0)

\* C30: under fair scheduling, with every batch task returning or raising,
\* each concurrent path returns; at that point every batch has resolved and
\* the worker of each batch ran exactly once (every batch was collected, so
\* its worker ran, and the runs number as many as the batches).
C30_ConcurrentPathReturns ==
    /\ (pc = "pool") ~> (pc = "returned")
    /\ [](pc = "returned" /\ workers > 1 /\ Len(task) > 0 =>
             /\ \A b \in 1..Len(task) : task[b].st = "collected"
             /\ calls = Len(task) + C30_CallsOutsideBatches)

\* a concurrent run with more than one batch has returned
C30_Witness ==
    /\ pc = "returned"
    /\ workers > 1
    /\ Len(task) > 1
    /\ \A b \in 1..Len(task) : task[b].st = "collected"
    /\ calls = Len(task) + C30_CallsOutsideBatches

====
